---- MODULE Spec2Model ----
(***************************************************************************)
(* JSONH reader of JsonhPy.                                                *)
(*                                                                         *)
(* src/JsonhPy/JsonhPy.py     : JSONHReader, JSONHQuotelessDecoder,        *)
(*                              JSONHNumberParser (the complete reader,    *)
(*                              which renders the parsed value as JSON     *)
(*                              text).                                     *)
(* src/JsonhPy/JsonhPy-new.py : JsonhResult and the token-driven tree      *)
(*                              builder JsonhReader.parse_element.         *)
(*                                                                         *)
(* Text is a sequence of one-character strings; cursor positions are       *)
(* 0-based as in the source, so source[j] of the code is src[j + 1] here.  *)
(***************************************************************************)
EXTENDS Integers, Sequences, FiniteSets, TLC

VARIABLES
    source,      \* JSONHReader.source
    i,           \* JSONHReader.i, the cursor
    comments,    \* JSONHReader.comments
    status,      \* "new" after __init__, then how to_json ended
    out,         \* the JSON text to_json returned
    msg,         \* class and message of the exception that escaped to_json
    saved,       \* _read_root_json: save; _skip: start (where a lookahead began)
    res,         \* a JsonhResult object (JsonhPy-new.py)
    call,        \* the last JsonhResult accessor called and how it ended
    tokens,      \* the results read_element yields, in order
    options,     \* JsonhReader.options
    token_count, \* how many results parse_element took from read_element
    current_elements,        \* parse_element: the stack of open containers
    current_property_name,   \* parse_element: the pending property name
    built        \* how parse_element ended

vars == <<source, i, comments, status, out, msg, saved, res, call, tokens, options,
          token_count, current_elements, current_property_name, built>>

readerVars == <<source, i, comments, status, out, msg, saved>>
resultVars == <<res, call>>
builderVars == <<tokens, options, token_count, current_elements,
                 current_property_name, built>>

-----------------------------------------------------------------------------
(* Python text primitives                                                  *)

\* Python's None.  Python objects other than text are records tagged with
\* their type.
None == [type |-> "NoneType"]

\* str.isspace() / str.strip() whitespace, restricted to the characters
\* that occur in the model's inputs and decoded escapes.
WhitespaceChars == {" ", "\t", "\n", "\r", "\f"}

IsSpace(c) == c \in WhitespaceChars

\* `c in "xyz"` for a string c of length 0 or 1: the empty string is a
\* substring of every string.
InStr(c, chars) == c = "" \/ c \in chars

\* source[a:b] for 0 <= a: the end is clipped to the length of the text
Slice(src, a, b) == SubSeq(src, a + 1, IF b > Len(src) THEN Len(src) ELSE b)

RECURSIVE LStrip(_)
LStrip(s) == IF s # <<>> /\ IsSpace(Head(s)) THEN LStrip(Tail(s)) ELSE s

RECURSIVE RStrip(_)
RStrip(s) ==
    IF s # <<>> /\ IsSpace(s[Len(s)]) THEN RStrip(SubSeq(s, 1, Len(s) - 1)) ELSE s

\* str.strip()
Strip(s) == RStrip(LStrip(s))

\* sep.join(parts) for sequences of texts
RECURSIVE Join(_, _)
Join(parts, sep) ==
    IF parts = <<>> THEN <<>>
    ELSE IF Len(parts) = 1 THEN parts[1]
    ELSE parts[1] \o sep \o Join(Tail(parts), sep)

-----------------------------------------------------------------------------
(* JSONHReader: cursor primitives                                          *)

\* A set of reserved characters that lacks the colon.
ReservedWithoutColon == {",", "[", "]", "{", "}", "/", "#", "\"", "'", "@"}

RESERVED == {",", ":", "[", "]", "{", "}", "/", "#", "\"", "'", "@"}

_eof(src, p) == p >= Len(src)

_peek(src, p, k) == IF p + k < Len(src) THEN src[p + k + 1] ELSE ""

_prev_char(src, p) == IF p > 0 THEN src[p] ELSE ""

_can_start_line_comment(src, p) == p = 0 \/ IsSpace(_prev_char(src, p))

_can_start_block_comment(src, p) ==
    \/ p = 0
    \/ IsSpace(_prev_char(src, p))
    \/ InStr(_prev_char(src, p), {"{", "[", ",", ":"})

\* The cursor after _consume_newline (unchanged when no newline is there).
_consume_newline(src, p) ==
    IF _peek(src, p, 0) = "\n" THEN p + 1
    ELSE IF _peek(src, p, 0) = "\r"
         THEN IF _peek(src, p + 1, 0) = "\n" THEN p + 2 ELSE p + 1
    ELSE p

\* An outcome of a reader method: the cursor and comments it leaves, and
\* either a returned text (kind "ok"), a raised exception (kind "raise",
\* exc its class, msg its message, the position being the cursor), or no
\* return at all (kind "hang").
Ok(p, cs, text) ==
    [kind |-> "ok", i |-> p, comments |-> cs, out |-> text,
     exc |-> "", msg |-> "", nl |-> FALSE]

\* raise self._err(m): JSONHSyntaxError(f"{m} at {self.i}")
_err(p, cs, m) ==
    [kind |-> "raise", i |-> p, comments |-> cs, out |-> <<>>,
     exc |-> "JSONHSyntaxError", msg |-> m, nl |-> FALSE]

\* A ValueError that is not wrapped by _err.
ValueError(p, cs, m) ==
    [kind |-> "raise", i |-> p, comments |-> cs, out |-> <<>>,
     exc |-> "ValueError", msg |-> m, nl |-> FALSE]

Hang(p, cs) ==
    [kind |-> "hang", i |-> p, comments |-> cs, out |-> <<>>,
     exc |-> "", msg |-> "", nl |-> FALSE]

\* Sequencing: the rest of a method runs on what a call returned; an
\* exception (or a call that never returns) ends the method with it.
Then(r, rest(_)) == IF r.kind # "ok" THEN r ELSE rest(r)

\* A local variable: the rest of a method runs on its value.
Let(v, rest(_)) == rest(v)

-----------------------------------------------------------------------------
(* JSONHReader._skip                                                       *)

\* The end of the line that holds position p.
RECURSIVE LineEnd(_, _)
LineEnd(src, p) ==
    IF ~_eof(src, p) /\ _peek(src, p, 0) \notin {"\n", "\r"}
    THEN LineEnd(src, p + 1) ELSE p

\* The first position at or after p that holds no "=".
RECURSIVE EqRunEnd(_, _)
EqRunEnd(src, p) == IF _peek(src, p, 0) = "=" THEN EqRunEnd(src, p + 1) ELSE p

\* The loop of a /* */ comment (lines 95-105).
RECURSIVE BlockCommentLoop(_, _, _)
BlockCommentLoop(src, p, nl) ==
    IF _eof(src, p) THEN [err |-> TRUE, i |-> p, nl |-> nl]
    ELSE IF _peek(src, p, 0) \in {"\n", "\r"}
         THEN BlockCommentLoop(src, _consume_newline(src, p), TRUE)
    ELSE IF _peek(src, p, 0) = "*" /\ _peek(src, p, 1) = "/"
         THEN [err |-> FALSE, i |-> p + 2, nl |-> nl]
    ELSE BlockCommentLoop(src, p + 1, nl)

\* A closer test that accepts a closer of any arity.
NestableClosesAnyArity(src, p, k) ==
    \E a \in 1..Len(src) :
        /\ p + 1 + a < Len(src)
        /\ \A d \in 1..a : src[p + d + 1] = "="
        /\ src[p + 1 + a + 1] = "/"

\* The closer test of lines 139-141 for the innermost arity k.
NestableCloses(src, p, k) ==
    /\ p + 1 + k < Len(src)
    /\ \A d \in 1..k : src[p + d + 1] = "="
    /\ src[p + 1 + k + 1] = "/"

\* The loop of a nestable block comment (lines 120-145).
RECURSIVE NestableCommentLoop(_, _, _, _)
NestableCommentLoop(src, p, stack, nl) ==
    IF stack = <<>> THEN [err |-> FALSE, i |-> p, nl |-> nl]
    ELSE IF _eof(src, p) THEN [err |-> TRUE, i |-> p, nl |-> nl]
    ELSE IF _peek(src, p, 0) \in {"\n", "\r"}
         THEN NestableCommentLoop(src, _consume_newline(src, p), stack, TRUE)
    ELSE IF /\ _peek(src, p, 0) = "/" /\ _peek(src, p, 1) = "="
            /\ _peek(src, EqRunEnd(src, p + 1), 0) = "*"
         THEN Let(EqRunEnd(src, p + 1), LAMBDA j :
                NestableCommentLoop(src, j + 1, Append(stack, j - (p + 1)), nl))
    ELSE IF /\ _peek(src, p, 0) = "*"
            /\ NestableCloses(src, p, stack[Len(stack)])
         THEN NestableCommentLoop(src, p + 2 + stack[Len(stack)],
                                  SubSeq(stack, 1, Len(stack) - 1), nl)
    ELSE NestableCommentLoop(src, p + 1, stack, nl)

\* The outer loop of _skip (lines 70-148); nl is had_nl.
RECURSIVE SkipLoop(_, _, _, _)
SkipLoop(src, p, cs, nl) ==
    LET c    == _peek(src, p, 0)
        done == [Ok(p, cs, <<>>) EXCEPT !.nl = nl]
    IN
    IF _eof(src, p) THEN done
    ELSE IF c \in {" ", "\t"} THEN SkipLoop(src, p + 1, cs, nl)
    ELSE IF c \in {"\n", "\r"} THEN SkipLoop(src, _consume_newline(src, p), cs, TRUE)
    ELSE IF c = "#" /\ _can_start_line_comment(src, p)
         THEN Let(LineEnd(src, p), LAMBDA e :
                SkipLoop(src, e, Append(cs, Slice(src, p, e)), nl))
    ELSE IF c = "/" /\ _peek(src, p, 1) = "/" /\ _can_start_line_comment(src, p)
         THEN Let(LineEnd(src, p + 2), LAMBDA e :
                SkipLoop(src, e, Append(cs, Slice(src, p, e)), nl))
    ELSE IF c = "/" /\ _peek(src, p, 1) = "*" /\ _can_start_block_comment(src, p)
         THEN Let(BlockCommentLoop(src, p + 2, nl), LAMBDA b :
                IF b.err THEN _err(b.i, cs, "Unterminated block comment")
                ELSE SkipLoop(src, b.i, Append(cs, Slice(src, p, b.i)), b.nl))
    ELSE IF c = "/" /\ _peek(src, p, 1) = "=" /\ _can_start_block_comment(src, p)
         THEN Let(EqRunEnd(src, p + 1), LAMBDA j :
                IF _peek(src, j, 0) # "*" THEN done
                ELSE Let(NestableCommentLoop(src, j + 1, <<j - (p + 1)>>, nl),
                         LAMBDA b :
                    IF b.err
                    THEN _err(b.i, cs, "Unterminated nestable block comment")
                    ELSE SkipLoop(src, b.i, Append(cs, Slice(src, p, b.i)), b.nl)))
    ELSE done

\* self._skip(): the outcome's nl is the returned had_nl.
_skip(src, p, cs) == SkipLoop(src, p, cs, FALSE)

-----------------------------------------------------------------------------
(* JSONHReader._read_bare_token and _read_quoteless_raw                    *)

\* The loop of _read_bare_token (lines 153-170): the cursor it leaves and
\* the raw buffer, escapes kept as backslash + character.
RECURSIVE BareTokenLoop(_, _, _)
BareTokenLoop(src, p, buf) ==
    LET c == _peek(src, p, 0) IN
    IF _eof(src, p) THEN [i |-> p, buf |-> buf]
    ELSE IF c \in {"\n", "\r"} THEN [i |-> p, buf |-> buf]
    ELSE IF c \in RESERVED THEN [i |-> p, buf |-> buf]
    ELSE IF c = "\\"
         THEN IF _eof(src, p + 1) THEN [i |-> p + 1, buf |-> buf]
              ELSE IF _peek(src, p + 1, 0) \in {"\n", "\r"}
                   THEN BareTokenLoop(src, _consume_newline(src, p + 1), buf)
              ELSE BareTokenLoop(src, p + 2, buf \o <<"\\", _peek(src, p + 1, 0)>>)
    ELSE BareTokenLoop(src, p + 1, Append(buf, c))

\* self._read_bare_token(): [i, tok] with tok = "".join(buf).strip()
_read_bare_token(src, p) ==
    Let(BareTokenLoop(src, p, <<>>), LAMBDA r : [i |-> r.i, tok |-> Strip(r.buf)])

\* The loop of _read_quoteless_raw (lines 450-470).
RECURSIVE QuotelessRawLoop(_, _, _, _)
QuotelessRawLoop(src, p, buf, is_verbatim) ==
    LET c == _peek(src, p, 0) IN
    IF _eof(src, p) THEN [i |-> p, buf |-> buf]
    ELSE IF c \in {"\r", "\n"} THEN [i |-> p, buf |-> buf]
    ELSE IF c \in RESERVED THEN [i |-> p, buf |-> buf]
    ELSE IF c = "\\" /\ ~is_verbatim
         THEN IF _eof(src, p + 1) THEN [i |-> p + 1, buf |-> buf]
              ELSE LET nxt == _peek(src, p + 1, 0) IN
                   IF nxt = "\n" THEN QuotelessRawLoop(src, p + 2, buf, is_verbatim)
                   ELSE IF nxt = "\r"
                        THEN QuotelessRawLoop(src,
                                 IF _peek(src, p + 2, 0) = "\n" THEN p + 3 ELSE p + 2,
                                 buf, is_verbatim)
                   ELSE QuotelessRawLoop(src, p + 2, buf \o <<"\\", nxt>>, is_verbatim)
    ELSE QuotelessRawLoop(src, p + 1, Append(buf, c), is_verbatim)

_read_quoteless_raw(src, p, is_verbatim) ==
    Let(QuotelessRawLoop(src, p, <<>>, is_verbatim),
        LAMBDA r : [i |-> r.i, tok |-> Strip(r.buf)])

-----------------------------------------------------------------------------
(* JSONHNumberParser                                                       *)
(*                                                                         *)
(* A Decimal is [neg, coef, exp]: (-1)^neg * coef * 10^exp.  The parser    *)
(* raises by returning NaN.  10^x for a non-integral x (lines 696-701) is  *)
(* a transcendental value: it is kept symbolic as [frac |-> TRUE].         *)

NaN == [nan |-> TRUE]

Dec(neg, coef, exp) == [nan |-> FALSE, frac |-> FALSE, neg |-> neg, coef |-> coef, exp |-> exp]

FracPow == [nan |-> FALSE, frac |-> TRUE]

RECURSIVE Pow(_, _)
Pow(b, n) == IF n = 0 THEN 1 ELSE b * Pow(b, n - 1)

\* ch.lower() for the letters that can be digits, prefixes or exponents
Lower(c) ==
    CASE c = "A" -> "a" [] c = "B" -> "b" [] c = "C" -> "c" [] c = "D" -> "d"
      [] c = "E" -> "e" [] c = "F" -> "f" [] c = "X" -> "x" [] c = "O" -> "o"
      [] OTHER -> c

HexDigits == <<"0", "1", "2", "3", "4", "5", "6", "7", "8", "9",
               "a", "b", "c", "d", "e", "f">>

\* The digit strings of lines 597-608.
BaseDigits(base) == {HexDigits[k] : k \in 1..base}

DigitValue(c) == (CHOOSE k \in 1..16 : HexDigits[k] = Lower(c)) - 1

\* int(s, base) for a text of digits of that base
RECURSIVE IntOf(_, _)
IntOf(s, base) ==
    IF s = <<>> THEN 0
    ELSE IntOf(SubSeq(s, 1, Len(s) - 1), base) * base + DigitValue(s[Len(s)])

\* str(n) for n >= 0
RECURSIVE StrOfNat(_)
StrOfNat(n) ==
    IF n < 10 THEN <<HexDigits[n + 1]>>
    ELSE Append(StrOfNat(n \div 10), HexDigits[(n % 10) + 1])

\* s.replace("_", "")
RECURSIVE RemoveUnderscores(_)
RemoveUnderscores(s) ==
    IF s = <<>> THEN <<>>
    ELSE IF Head(s) = "_" THEN RemoveUnderscores(Tail(s))
    ELSE <<Head(s)>> \o RemoveUnderscores(Tail(s))

\* _contains_any_digit
_contains_any_digit(text, base) ==
    \E k \in 1..Len(text) : Lower(text[k]) \in BaseDigits(base)

\* _parse_whole_number: [ok, n]
_parse_whole_number(digits, base, allow_empty) ==
    Let(Strip(digits), LAMBDA s :
        IF s = <<>> THEN [ok |-> allow_empty, n |-> 0]
        ELSE IF \E k \in 1..Len(s) : Lower(s[k]) \notin BaseDigits(base)
             THEN [ok |-> FALSE, n |-> 0]
        ELSE [ok |-> TRUE, n |-> IntOf(s, base)])

\* The position of the first "." of s, 0 when it has none.
FirstDot(s) ==
    IF \E k \in 1..Len(s) : s[k] = "."
    THEN CHOOSE k \in 1..Len(s) : s[k] = "." /\ \A j \in 1..(k - 1) : s[j] # "."
    ELSE 0

\* _parse_fractional_number: a Decimal, or NaN when it raises.
_parse_fractional_number(digits, base, allow_sign) ==
    Let(Strip(digits), LAMBDA s0 :
    IF s0 = <<>> THEN NaN
    ELSE
    Let(allow_sign /\ s0[1] \in {"+", "-"}, LAMBDA signed :
    Let(signed /\ s0[1] = "-", LAMBDA local_neg :
    Let(IF signed THEN Tail(s0) ELSE s0, LAMBDA s :
    IF s = <<>> THEN NaN
    ELSE
    Let(FirstDot(s), LAMBDA dot :
    IF dot = 0
    THEN Let(_parse_whole_number(s, base, FALSE), LAMBDA w :
            IF ~w.ok THEN NaN
            \* Decimal(n * local_sign): an int, so -0 is 0
            ELSE Dec(local_neg /\ w.n # 0, w.n, 0))
    ELSE Let(_parse_whole_number(SubSeq(s, 1, dot - 1), base, TRUE), LAMBDA whole :
         Let(_parse_whole_number(SubSeq(s, dot + 1, Len(s)), base, TRUE), LAMBDA frac :
            IF ~whole.ok \/ ~frac.ok THEN NaN
            \* Decimal(f"{whole}.{frac}") * local_sign
            ELSE Let(StrOfNat(frac.n), LAMBDA fs :
                    Dec(local_neg, whole.n * Pow(10, Len(fs)) + frac.n,
                        -Len(fs))))))))))

\* _split_exponent: [mantissa, has_exp, exponent]
_split_exponent(digits, base) ==
    LET IsE(k) == digits[k] \in {"e", "E"}
        Sel(k) == IF "e" \in BaseDigits(base)
                  THEN IsE(k) /\ k + 1 <= Len(digits) /\ digits[k + 1] \in {"+", "-"}
                  ELSE IsE(k)
    IN IF \E k \in 1..Len(digits) : Sel(k)
       THEN LET k == CHOOSE k \in 1..Len(digits) :
                        Sel(k) /\ \A j \in 1..(k - 1) : ~Sel(j)
            IN [mantissa |-> SubSeq(digits, 1, k - 1), has_exp |-> TRUE,
                exponent |-> SubSeq(digits, k + 1, Len(digits))]
       ELSE [mantissa |-> digits, has_exp |-> FALSE, exponent |-> <<>>]

\* The digits of the coefficient that stand before the decimal point of a
\* Decimal with exp < 0, and those that stand after it.
IntDigits(d) ==
    Let(StrOfNat(d.coef), LAMBDA s :
        IF Len(s) > -d.exp THEN SubSeq(s, 1, Len(s) + d.exp) ELSE <<"0">>)

RECURSIVE ZeroPad(_, _)
ZeroPad(s, width) == IF Len(s) >= width THEN s ELSE ZeroPad(<<"0">> \o s, width)

FracDigits(d) ==
    Let(ZeroPad(StrOfNat(d.coef), -d.exp),
        LAMBDA s : SubSeq(s, Len(s) + d.exp + 1, Len(s)))

\* d == d.to_integral_value()
IsIntegral(d) ==
    d.exp >= 0 \/ Let(FracDigits(d), LAMBDA f : \A k \in 1..(-d.exp) : f[k] = "0")

\* int(d) for an integral Decimal with exp <= 0
IntOfDec(d) ==
    LET m == IF d.exp = 0 THEN d.coef ELSE IntOf(IntDigits(d), 10)
    IN IF d.neg THEN -m ELSE m

StartsWith(s, a, bs) == Len(s) >= 2 /\ s[1] = a /\ s[2] \in bs

\* _parse: the Decimal value of a token, or NaN when it raises.
_parse(token) ==
    Let(Strip(token), LAMBDA s0 :
    IF s0 = <<>> THEN NaN
    ELSE IF s0 \in {<<".">>, <<"-", ".">>, <<"+", ".">>} THEN NaN
    ELSE
    Let(RemoveUnderscores(s0), LAMBDA s1 :
    \* s[0] of an empty s raises IndexError, caught like the rest
    IF s1 = <<>> THEN NaN
    ELSE
    Let(s1[1] = "-", LAMBDA neg :
    Let(IF s1[1] \in {"-", "+"} THEN Tail(s1) ELSE s1, LAMBDA s2 :
    IF s2 = <<>> THEN NaN
    ELSE
    Let(IF StartsWith(s2, "0", {"x", "X"}) THEN 16
        ELSE IF StartsWith(s2, "0", {"b", "B"}) THEN 2
        ELSE IF StartsWith(s2, "0", {"o", "O"}) THEN 8
        ELSE 10, LAMBDA base :
    Let(IF base = 10 THEN s2 ELSE SubSeq(s2, 3, Len(s2)), LAMBDA s3 :
    IF s3 = <<>> THEN NaN
    ELSE
    Let(_split_exponent(s3, base), LAMBDA sp :
    IF sp.has_exp /\ ~_contains_any_digit(sp.mantissa, base) THEN NaN
    ELSE IF sp.has_exp /\ ~_contains_any_digit(sp.exponent, base) THEN NaN
    ELSE
    Let(_parse_fractional_number(sp.mantissa, base, FALSE), LAMBDA mantissa :
    IF mantissa.nan THEN NaN
    ELSE IF ~sp.has_exp
         \* out = -out turns a zero into +0
         THEN Dec(neg /\ mantissa.coef # 0, mantissa.coef, mantissa.exp)
    ELSE
    Let(_parse_fractional_number(sp.exponent, base, TRUE), LAMBDA exponent :
    IF exponent.nan THEN NaN
    ELSE IF ~IsIntegral(exponent) THEN FracPow
    ELSE Dec(neg /\ mantissa.coef # 0, mantissa.coef,
             mantissa.exp + IntOfDec(exponent)))))))))))

\* str(d) of a Decimal with exp >= 0, sign apart.
StrOfDecimal(coef, exp) ==
    Let(StrOfNat(coef), LAMBDA d :
        IF exp = 0 THEN d
        ELSE <<d[1]>> \o (IF Len(d) > 1 THEN <<".">> \o Tail(d) ELSE <<>>)
             \o <<"E", "+">> \o StrOfNat(exp + Len(d) - 1))

RECURSIVE RStripZeros(_)
RStripZeros(s) ==
    IF s # <<>> /\ s[Len(s)] = "0" THEN RStripZeros(SubSeq(s, 1, Len(s) - 1)) ELSE s

\* to_decimal_literal: [ok, text]; ok = FALSE is the returned None.
to_decimal_literal(token) ==
    Let(_parse(token), LAMBDA value :
    IF value.nan THEN [ok |-> FALSE, text |-> <<>>]
    ELSE IF value.frac THEN [ok |-> TRUE, text |-> <<"10**x">>]
    ELSE
    Let(IF value.neg THEN <<"-">> ELSE <<>>, LAMBDA sign :
    IF IsIntegral(value)
    THEN [ok |-> TRUE,
          text |-> sign \o
              (IF value.exp >= 0 THEN StrOfDecimal(value.coef, value.exp)
               ELSE IntDigits(value))]
    ELSE [ok |-> TRUE,
          text |-> sign \o IntDigits(value) \o <<".">>
                   \o RStripZeros(FracDigits(value))]))

-----------------------------------------------------------------------------
(* Characters by code point                                                *)

\* The printable ASCII characters, code points 32..126 in order.
Ascii ==
    <<" ", "!", "\"", "#", "$", "%", "&", "'", "(", ")", "*", "+", ",", "-", ".", "/",
      "0", "1", "2", "3", "4", "5", "6", "7", "8", "9", ":", ";", "<", "=", ">", "?",
      "@", "A", "B", "C", "D", "E", "F", "G", "H", "I", "J", "K", "L", "M", "N", "O",
      "P", "Q", "R", "S", "T", "U", "V", "W", "X", "Y", "Z", "[", "\\", "]", "^", "_",
      "U+96", "a", "b", "c", "d", "e", "f", "g", "h", "i", "j", "k", "l", "m", "n", "o",
      "p", "q", "r", "s", "t", "u", "v", "w", "x", "y", "z", "{", "|", "}", "~">>

\* chr(cp): a character outside printable ASCII and the four named controls
\* is written "U+<code point in decimal>".
Chr(cp) ==
    IF cp \in 32..126 THEN Ascii[cp - 31]
    ELSE IF cp = 9 THEN "\t"
    ELSE IF cp = 10 THEN "\n"
    ELSE IF cp = 12 THEN "\f"
    ELSE IF cp = 13 THEN "\r"
    ELSE "U+" \o ToString(cp)

\* The further characters str.isspace() accepts, which escapes can produce.
UnicodeSpaces ==
    {Chr(cp) : cp \in {11, 28, 29, 30, 31, 133, 160, 5760, 8232, 8233, 8239, 8287, 12288}
                      \cup (8192..8202)}

IsSpaceU(c) == IsSpace(c) \/ c \in UnicodeSpaces

RECURSIVE LStripU(_)
LStripU(s) == IF s # <<>> /\ IsSpaceU(Head(s)) THEN LStripU(Tail(s)) ELSE s

RECURSIVE RStripU(_)
RStripU(s) ==
    IF s # <<>> /\ IsSpaceU(s[Len(s)]) THEN RStripU(SubSeq(s, 1, Len(s) - 1)) ELSE s

\* str.strip() of a decoded text
StripU(s) == RStripU(LStripU(s))

-----------------------------------------------------------------------------
(* json.dumps(s, ensure_ascii=False)                                       *)

JsonEscape(c) ==
    IF c = "\"" THEN <<"\\", "\"">>
    ELSE IF c = "\\" THEN <<"\\", "\\">>
    ELSE IF c = "\n" THEN <<"\\", "n">>
    ELSE IF c = "\r" THEN <<"\\", "r">>
    ELSE IF c = "\t" THEN <<"\\", "t">>
    ELSE IF c = "\f" THEN <<"\\", "f">>
    ELSE IF c = Chr(8) THEN <<"\\", "b">>
    ELSE IF \E cp \in 0..31 : c = Chr(cp)
         THEN LET cp == CHOOSE cp \in 0..31 : c = Chr(cp)
              IN <<"\\", "u", "0", "0", HexDigits[(cp \div 16) + 1], HexDigits[(cp % 16) + 1]>>
    ELSE <<c>>

RECURSIVE JsonEscapeAll(_)
JsonEscapeAll(s) ==
    IF s = <<>> THEN <<>> ELSE JsonEscape(Head(s)) \o JsonEscapeAll(Tail(s))

json_dumps(s) == <<"\"">> \o JsonEscapeAll(s) \o <<"\"">>

-----------------------------------------------------------------------------
(* JSONHQuotelessDecoder                                                   *)

_HEX == {"0", "1", "2", "3", "4", "5", "6", "7", "8", "9",
         "a", "b", "c", "d", "e", "f", "A", "B", "C", "D", "E", "F"}

_ESCAPABLE_PUNCT == {",", ":", "[", "]", "{", "}", "#", "@"}

\* The one-character escapes of lines 510-528: the decoded text, or <<"?">>
\* with ok = FALSE for a character that is none of them.
SimpleEscape(esc) ==
    IF esc = " " THEN [ok |-> TRUE, s |-> <<" ">>]
    ELSE IF esc \in _ESCAPABLE_PUNCT THEN [ok |-> TRUE, s |-> <<esc>>]
    ELSE IF esc = "n" THEN [ok |-> TRUE, s |-> <<"\n">>]
    ELSE IF esc = "r" THEN [ok |-> TRUE, s |-> <<"\r">>]
    ELSE IF esc = "t" THEN [ok |-> TRUE, s |-> <<"\t">>]
    ELSE IF esc = "\\" THEN [ok |-> TRUE, s |-> <<"\\">>]
    ELSE IF esc = "\"" THEN [ok |-> TRUE, s |-> <<"\"">>]
    ELSE IF esc = "'" THEN [ok |-> TRUE, s |-> <<"'">>]
    ELSE IF esc = "/" THEN [ok |-> TRUE, s |-> <<"/">>]
    ELSE IF esc = "b" THEN [ok |-> TRUE, s |-> <<Chr(8)>>]
    ELSE IF esc = "f" THEN [ok |-> TRUE, s |-> <<"\f">>]
    ELSE IF esc = "v" THEN [ok |-> TRUE, s |-> <<Chr(11)>>]
    ELSE IF esc = "0" THEN [ok |-> TRUE, s |-> <<Chr(0)>>]
    ELSE IF esc = "a" THEN [ok |-> TRUE, s |-> <<Chr(7)>>]
    ELSE IF esc = "e" THEN [ok |-> TRUE, s |-> <<Chr(27)>>]
    ELSE [ok |-> FALSE, s |-> <<"?">>]

\* read_hex(k) at 0-based position p of tok: [err, cp]; err = "" when it
\* returns.  A value above 0x10FFFF is reported as 1114112 (chr() then
\* raises), which keeps the arithmetic within the checker's integers.
read_hex(tok, p, k) ==
    LET s == SubSeq(tok, p + 1, p + k) IN
    IF p + k > Len(tok) THEN [err |-> "Incomplete escape sequence", cp |-> 0]
    ELSE IF \E j \in 1..k : s[j] \notin _HEX THEN [err |-> "Invalid hex escape", cp |-> 0]
    ELSE IF k > 6 /\ \E j \in 1..(k - 6) : s[j] # "0" THEN [err |-> "", cp |-> 1114112]
    ELSE [err |-> "", cp |-> IntOf(IF k > 6 THEN SubSeq(s, k - 5, k) ELSE s, 16)]

\* The loop of decode (lines 493-549) from 0-based position p with the
\* output so far: [err, s]; err = "" when it returns.
RECURSIVE DecodeLoop(_, _, _)
DecodeLoop(tok, p, acc) ==
    IF p >= Len(tok) THEN [err |-> "", s |-> acc]
    ELSE IF tok[p + 1] # "\\" THEN DecodeLoop(tok, p + 1, Append(acc, tok[p + 1]))
    ELSE IF p + 1 >= Len(tok) THEN [err |-> "Dangling backslash", s |-> acc]
    ELSE LET esc == tok[p + 2]
             q   == p + 2
         IN
         IF esc = "\n" THEN DecodeLoop(tok, q, acc)
         ELSE IF esc = "\r"
              THEN DecodeLoop(tok, IF q < Len(tok) /\ tok[q + 1] = "\n" THEN q + 1 ELSE q, acc)
         ELSE IF SimpleEscape(esc).ok THEN DecodeLoop(tok, q, acc \o SimpleEscape(esc).s)
         ELSE IF esc = "x"
              THEN Let(read_hex(tok, q, 2), LAMBDA h :
                   IF h.err # "" THEN [err |-> h.err, s |-> acc]
                   ELSE DecodeLoop(tok, q + 2, Append(acc, Chr(h.cp))))
         ELSE IF esc = "u"
              THEN Let(read_hex(tok, q, 4), LAMBDA hi :
                   IF hi.err # "" THEN [err |-> hi.err, s |-> acc]
                   ELSE IF /\ hi.cp \in 55296..56319
                           /\ q + 4 + 6 <= Len(tok)
                           /\ SubSeq(tok, q + 5, q + 6) = <<"\\", "u">>
                        THEN Let(read_hex(tok, q + 6, 4), LAMBDA lo :
                             IF lo.err # "" THEN [err |-> lo.err, s |-> acc]
                             ELSE IF lo.cp \in 56320..57343
                                  THEN DecodeLoop(tok, q + 10,
                                           Append(acc, Chr(65536 + (hi.cp - 55296) * 1024
                                                                 + (lo.cp - 56320))))
                             ELSE [err |-> "Invalid low surrogate", s |-> acc])
                   ELSE DecodeLoop(tok, q + 4, Append(acc, Chr(hi.cp))))
         ELSE IF esc = "U"
              THEN Let(read_hex(tok, q, 8), LAMBDA h :
                   IF h.err # "" THEN [err |-> h.err, s |-> acc]
                   ELSE IF h.cp > 1114111
                        THEN [err |-> "chr() arg not in range(0x110000)", s |-> acc]
                   ELSE DecodeLoop(tok, q + 8, Append(acc, Chr(h.cp))))
         ELSE [err |-> "Invalid escape", s |-> acc]

\* decode(tok, strip=...): [err, s]
decode(tok, strip) ==
    Let(DecodeLoop(tok, 0, <<>>), LAMBDA r :
        IF r.err # "" THEN r
        ELSE [err |-> "", s |-> IF strip THEN StripU(r.s) ELSE r.s])

\* decode_to_json(tok): [err, s] with s the JSON string literal
decode_to_json(tok) ==
    IF \E k \in 1..Len(tok) : tok[k] = "/" /\ (k = 1 \/ tok[k - 1] # "\\")
    THEN [err |-> "Slash rejected by policy", s |-> <<>>]
    ELSE Let(decode(tok, TRUE), LAMBDA r :
             IF r.err # "" THEN r ELSE [err |-> "", s |-> json_dumps(r.s)])

-----------------------------------------------------------------------------
(* JSONHReader: strings                                                    *)

\* The loop of _read_string (lines 309-325) after the opening quote.
RECURSIVE ReadStringLoop(_, _, _, _, _)
ReadStringLoop(src, p, cs, quote, buf) ==
    IF _eof(src, p) THEN _err(p, cs, "Unterminated string")
    ELSE LET c == _peek(src, p, 0) IN
         IF c = quote
         THEN Let(decode(buf, FALSE), LAMBDA d :
              IF d.err # "" THEN ValueError(p + 1, cs, d.err)
              ELSE Ok(p + 1, cs, json_dumps(d.s)))
         ELSE IF c = "\\"
              THEN IF _eof(src, p + 1) THEN _err(p + 1, cs, "Unterminated string escape")
                   ELSE LET nxt == _peek(src, p + 1, 0) IN
                        IF nxt = "\r" /\ _peek(src, p + 2, 0) = "\n"
                        THEN ReadStringLoop(src, p + 3, cs, quote, buf \o <<"\\", nxt, "\n">>)
                        ELSE ReadStringLoop(src, p + 2, cs, quote, buf \o <<"\\", nxt>>)
         ELSE ReadStringLoop(src, p + 1, cs, quote, Append(buf, c))

\* self._read_string(): _take() moves the cursor even at the end of input,
\* where the quote it returns is "".
_read_string(src, p, cs) ==
    LET quote == _peek(src, p, 0) IN
    IF ~InStr(quote, {"\"", "'"}) THEN _err(p + 1, cs, "Expected string quote")
    ELSE ReadStringLoop(src, p + 1, cs, quote, <<>>)

\* self._read_verbatim()
_read_verbatim(src, p, cs) ==
    IF _peek(src, p, 0) # "@" THEN _err(p + 1, cs, "Expected '@'")
    ELSE IF _eof(src, p + 1) THEN _err(p + 1, cs, "Expected string immediately after '@'")
    ELSE IF IsSpace(_peek(src, p + 1, 0)) \/ InStr(_peek(src, p + 1, 0), {"#", "/"})
         THEN _err(p + 1, cs, "Expected string immediately after '@'")
    ELSE Let(_read_quoteless_raw(src, p + 1, TRUE),
             LAMBDA raw : Ok(raw.i, cs, json_dumps(raw.tok)))

\* `while self._peek(run) == q: run += 1` (lines 183-184, 340-341): the
\* final run.  _peek returns "" at every position past the end, so with
\* q = "" the test never fails and the loop does not end: Diverges.
Diverges == -1

RECURSIVE QuoteRunLoop(_, _, _, _)
QuoteRunLoop(src, p, q, run) ==
    IF _peek(src, p, run) # q THEN run
    ELSE IF p + run >= Len(src) THEN Diverges
    ELSE QuoteRunLoop(src, p, q, run + 1)

QuoteRun(src, p, q) == QuoteRunLoop(src, p, q, 0)

\* source.find(q * count, start): the least position, -1 when there is none
FindDelimiter(src, q, count, start) ==
    LET Hit(j) == \A d \in 1..count : src[j + d] = q
        hits == {j \in start..(Len(src) - count) : Hit(j)}
    IN IF hits = {} THEN -1 ELSE CHOOSE j \in hits : \A k \in hits : j <= k

\* s.find(c) and s.rfind(c) over 0-based positions, -1 when absent
Find(s, c) ==
    LET hits == {k \in 0..(Len(s) - 1) : s[k + 1] = c}
    IN IF hits = {} THEN -1 ELSE CHOOSE j \in hits : \A k \in hits : j <= k

RFind(s, c) ==
    LET hits == {k \in 0..(Len(s) - 1) : s[k + 1] = c}
    IN IF hits = {} THEN -1 ELSE CHOOSE j \in hits : \A k \in hits : j >= k

Max2(a, b) == IF a >= b THEN a ELSE b

\* min([x for x in [nl, cr] if x != -1], default=-1)
FirstNewline(s) ==
    Let(Find(s, "\n"), LAMBDA nl :
    Let(Find(s, "\r"), LAMBDA cr :
        IF nl = -1 THEN cr ELSE IF cr = -1 THEN nl ELSE IF nl <= cr THEN nl ELSE cr))

IsBlank(s) == Strip(s) = <<>>

StartsNewline(s) == s # <<>> /\ s[1] \in {"\n", "\r"}
EndsNewline(s) == s # <<>> /\ s[Len(s)] \in {"\n", "\r"}

\* content.splitlines(True)
RECURSIVE SplitLines(_, _)
SplitLines(s, line) ==
    IF s = <<>> THEN (IF line = <<>> THEN <<>> ELSE <<line>>)
    ELSE IF Head(s) = "\r" /\ Len(s) >= 2 /\ s[2] = "\n"
         THEN <<line \o <<"\r", "\n">>>> \o SplitLines(SubSeq(s, 3, Len(s)), <<>>)
    ELSE IF Head(s) \in {"\n", "\r", "\f"}
         THEN <<Append(line, Head(s))>> \o SplitLines(Tail(s), <<>>)
    ELSE SplitLines(Tail(s), Append(line, Head(s)))

HasPrefix(s, pre) == Len(s) >= Len(pre) /\ SubSeq(s, 1, Len(pre)) = pre

RECURSIVE StripIndent(_, _)
StripIndent(lines, indent) ==
    IF lines = <<>> THEN <<>>
    ELSE (IF HasPrefix(Head(lines), indent)
          THEN SubSeq(Head(lines), Len(indent) + 1, Len(Head(lines)))
          ELSE Head(lines))
         \o StripIndent(Tail(lines), indent)

\* Lines 368-378: the content without its leading newline region.
StripLead(content) ==
    IF HasPrefix(content, <<"\r", "\n">>) THEN SubSeq(content, 3, Len(content))
    ELSE IF StartsNewline(content) THEN Tail(content)
    ELSE Let(FirstNewline(content), LAMBDA f :
             IF f < 0 THEN content
             ELSE IF Slice(content, f, f + 2) = <<"\r", "\n">>
                  THEN SubSeq(content, f + 3, Len(content))
             ELSE SubSeq(content, f + 2, Len(content)))

\* Lines 379-386: the content without its trailing newline region.
StripTrail(lead) ==
    IF Len(lead) >= 2 /\ SubSeq(lead, Len(lead) - 1, Len(lead)) = <<"\r", "\n">>
    THEN SubSeq(lead, 1, Len(lead) - 2)
    ELSE IF EndsNewline(lead) THEN SubSeq(lead, 1, Len(lead) - 1)
    ELSE Let(Max2(RFind(lead, "\n"), RFind(lead, "\r")), LAMBDA l :
             IF l >= 0 THEN SubSeq(lead, 1, l) ELSE lead)

\* Lines 368-386
StripFrame(content) == StripTrail(StripLead(content))

\* The escape loop of _read_multiquote (lines 404-427).  int(text, 16) is
\* taken to accept exactly four (eight) hexadecimal digits.
RECURSIVE MultiquoteDecode(_, _)
MultiquoteDecode(content, j) ==
    IF j >= Len(content) THEN <<>>
    ELSE IF content[j + 1] = "\\" /\ j + 1 < Len(content)
         THEN Let(content[j + 2], LAMBDA nx :
              IF nx = "n" THEN <<"\n">> \o MultiquoteDecode(content, j + 2)
              ELSE IF nx = "r" THEN <<"\r">> \o MultiquoteDecode(content, j + 2)
              ELSE IF nx = "t" THEN <<"\t">> \o MultiquoteDecode(content, j + 2)
              ELSE IF nx \in {"\\", "\"", "'"} THEN <<nx>> \o MultiquoteDecode(content, j + 2)
              ELSE
              Let(read_hex(content, j + 2, 4), LAMBDA u4 :
              Let(read_hex(content, j + 2, 8), LAMBDA u8 :
              IF nx = "u" /\ j + 5 < Len(content) /\ u4.err = ""
              THEN <<Chr(u4.cp)>> \o MultiquoteDecode(content, j + 6)
              ELSE IF nx = "U" /\ j + 9 < Len(content) /\ u8.err = "" /\ u8.cp <= 1114111
                   THEN <<Chr(u8.cp)>> \o MultiquoteDecode(content, j + 10)
              ELSE <<nx>> \o MultiquoteDecode(content, j + 2))))
    ELSE <<content[j + 1]>> \o MultiquoteDecode(content, j + 1)

\* Lines 353-360: the content opens with a newline, or with blanks up to one.
HasFirstNewline(content) ==
    \/ StartsNewline(content)
    \/ /\ content # <<>> /\ content[1] \in {" ", "\t"}
       /\ Let(FirstNewline(content),
              LAMBDA f : f > 0 /\ IsBlank(SubSeq(content, 1, f)))

\* Lines 361-366: the content closes with a newline, or with blanks after one.
HasLastNewline(content) ==
    \/ EndsNewline(content)
    \/ /\ content # <<>> /\ content[Len(content)] \in {" ", "\t"}
       /\ Let(Max2(RFind(content, "\n"), RFind(content, "\r")),
              LAMBDA l : l >= 0 /\ IsBlank(SubSeq(content, l + 2, Len(content))))

\* Lines 387-389: the last line start before the closing delimiter, -1 if none.
LineStart(head) ==
    Let(RFind(head, "\n"), LAMBDA n : IF n # -1 THEN n ELSE RFind(head, "\r"))

\* Lines 351-401 with the frame removed as soon as either newline is there.
MultiquoteStripEither(src, end, content) ==
    IF ~(HasFirstNewline(content) \/ HasLastNewline(content)) THEN content
    ELSE
    Let(LineStart(Slice(src, 0, end)), LAMBDA line_start :
    Let(Slice(src, line_start + 1, end), LAMBDA closing_indent :
    Let(StripFrame(content), LAMBDA framed :
        IF line_start # -1 /\ IsBlank(closing_indent)
        THEN StripIndent(SplitLines(framed, <<>>), closing_indent)
        ELSE framed)))

\* Lines 351-401: the content between the delimiters, frame and indentation
\* removed when it has both a first and a last newline.
MultiquoteStrip(src, end, content) ==
    IF ~(HasFirstNewline(content) /\ HasLastNewline(content)) THEN content
    ELSE
    Let(LineStart(Slice(src, 0, end)), LAMBDA line_start :
    Let(Slice(src, line_start + 1, end), LAMBDA closing_indent :
    Let(StripFrame(content), LAMBDA framed :
        IF line_start # -1 /\ IsBlank(closing_indent)
        THEN StripIndent(SplitLines(framed, <<>>), closing_indent)
        ELSE framed)))

\* self._read_multiquote()
_read_multiquote(src, p, cs) ==
    Let(_peek(src, p, 0), LAMBDA q :
    Let(QuoteRun(src, p, q), LAMBDA quote_count :
    IF quote_count < 3 THEN _err(p, cs, "Expected multi-quote")
    ELSE
    Let(p + quote_count, LAMBDA start :
    Let(FindDelimiter(src, q, quote_count, start), LAMBDA end :
    IF end = -1 THEN _err(start, cs, "Unterminated multi-quote")
    ELSE Ok(end + quote_count, cs,
            json_dumps(MultiquoteDecode(
                MultiquoteStrip(src, end, Slice(src, start, end)), 0)))))))

\* self._read_key_json()
_read_key_json(src, p, cs) ==
    Then(_skip(src, p, cs), LAMBDA sk :
    Let(_peek(src, sk.i, 0), LAMBDA c :
    IF InStr(c, {"\"", "'"}) THEN _read_string(src, sk.i, sk.comments)
    ELSE IF c = "@" THEN _read_verbatim(src, sk.i, sk.comments)
    ELSE
    Let(_read_bare_token(src, sk.i), LAMBDA bare :
    IF bare.tok = <<>> THEN _err(bare.i, sk.comments, "Expected key in object")
    ELSE
    Let(decode(bare.tok, TRUE), LAMBDA key :
    IF key.err # "" THEN _err(bare.i, sk.comments, key.err)
    ELSE Ok(bare.i, sk.comments, json_dumps(key.s))))))

-----------------------------------------------------------------------------
(* JSONHReader: values, objects, arrays, the root                          *)

RECURSIVE _read_value(_, _, _)
RECURSIVE ObjectLoop(_, _, _, _, _)
RECURSIVE ArrayLoop(_, _, _, _)

\* A reader that takes every bare token beginning with a keyword for that
\* keyword.
ReadBareValueByPrefix(src, p, cs) ==
    Let(_read_bare_token(src, p), LAMBDA bare :
    Let({k \in {<<"t", "r", "u", "e">>, <<"f", "a", "l", "s", "e">>,
                <<"n", "u", "l", "l">>} :
            Len(bare.tok) >= Len(k) /\ SubSeq(bare.tok, 1, Len(k)) = k},
        LAMBDA hit :
    IF hit # {} THEN Ok(bare.i, cs, CHOOSE k \in hit : TRUE)
    ELSE
    Let(decode_to_json(bare.tok), LAMBDA str :
    IF str.err # "" THEN _err(bare.i, cs, str.err)
    ELSE Ok(bare.i, cs, str.s))))

\* A reader for which a bare token that starts like a number and is not one
\* is an error.
ReadBareValueStrict(src, p, cs) ==
    Let(_read_bare_token(src, p), LAMBDA bare :
    IF bare.tok \in {<<"t", "r", "u", "e">>, <<"f", "a", "l", "s", "e">>,
                     <<"n", "u", "l", "l">>}
    THEN Ok(bare.i, cs, bare.tok)
    ELSE
    Let(to_decimal_literal(bare.tok), LAMBDA num :
    IF num.ok THEN Ok(bare.i, cs, num.text)
    ELSE IF bare.tok # <<>> /\ bare.tok[1] \in {"0", "1", "+", "-", "."}
         THEN _err(bare.i, cs, "Invalid number")
    ELSE
    Let(decode_to_json(bare.tok), LAMBDA str :
    IF str.err # "" THEN _err(bare.i, cs, str.err)
    ELSE Ok(bare.i, cs, str.s))))

\* Lines 190-199 of _read_value: a bare token read as a keyword, a number
\* or a quoteless string.
ReadBareValue(src, p, cs) ==
    Let(_read_bare_token(src, p), LAMBDA bare :
    IF bare.tok \in {<<"t", "r", "u", "e">>, <<"f", "a", "l", "s", "e">>,
                     <<"n", "u", "l", "l">>}
    THEN Ok(bare.i, cs, bare.tok)
    ELSE
    Let(to_decimal_literal(bare.tok), LAMBDA num :
    IF num.ok THEN Ok(bare.i, cs, num.text)
    ELSE
    Let(decode_to_json(bare.tok), LAMBDA str :
    IF str.err # "" THEN _err(bare.i, cs, str.err)
    ELSE Ok(bare.i, cs, str.s))))

\* Lines 268-275 of _read_object: one property, then the loop again.
ObjectProperty(src, p, cs, parts) ==
    Then(_read_key_json(src, p, cs), LAMBDA key :
    Then(_skip(src, key.i, key.comments), LAMBDA sk :
    IF _peek(src, sk.i, 0) # ":" THEN _err(sk.i, sk.comments, "Expected ':' in object")
    ELSE
    Then(_read_value(src, sk.i + 1, sk.comments), LAMBDA val :
    ObjectLoop(src, val.i, val.comments, parts \o key.out \o <<":">> \o val.out, FALSE))))

\* Lines 257-264 of _read_object: behind a comma, the end of the object or
\* the next property.
ObjectAfterComma(src, p, cs, parts) ==
    Then(_skip(src, p, cs), LAMBDA sk2 :
    IF _peek(src, sk2.i, 0) = "}"
    THEN Ok(sk2.i + 1, sk2.comments, Append(parts, "}"))
    ELSE ObjectProperty(src, sk2.i, sk2.comments, Append(parts, ",")))

\* An object loop that asks for no separator between two properties.
ObjectLoopNoSeparator(src, p, cs, parts, first) ==
    Then(_skip(src, p, cs), LAMBDA sk :
    Let(_peek(src, sk.i, 0), LAMBDA c :
    IF c = "}" THEN Ok(sk.i + 1, sk.comments, Append(parts, "}"))
    ELSE IF first THEN ObjectProperty(src, sk.i, sk.comments, parts)
    ELSE IF c = "," THEN ObjectAfterComma(src, sk.i + 1, sk.comments, parts)
    ELSE ObjectProperty(src, sk.i, sk.comments, Append(parts, ","))))

\* The loop of _read_object (lines 249-275).
ObjectLoop(src, p, cs, parts, first) ==
    Then(_skip(src, p, cs), LAMBDA sk :
    Let(_peek(src, sk.i, 0), LAMBDA c :
    IF c = "}" THEN Ok(sk.i + 1, sk.comments, Append(parts, "}"))
    ELSE IF first THEN ObjectProperty(src, sk.i, sk.comments, parts)
    ELSE IF c = "," THEN ObjectAfterComma(src, sk.i + 1, sk.comments, parts)
    ELSE IF ~sk.nl
         THEN _err(sk.i, sk.comments, "Expected ',', newline, or '}' after object pair")
    ELSE ObjectProperty(src, sk.i, sk.comments, Append(parts, ","))))

\* self._read_object()
_read_object(src, p, cs) ==
    IF _peek(src, p, 0) # "{" THEN _err(p + 1, cs, "Expected '{'")
    ELSE ObjectLoop(src, p + 1, cs, <<"{">>, TRUE)

\* json of an array from its item texts (line 302)
ArrayText(items) == <<"[">> \o Join(items, <<",">>) \o <<"]">>

\* An array loop that reads one more item behind a trailing comma.
ArrayLoopItemAfterComma(src, p, cs, items) ==
    Then(_read_value(src, p, cs), LAMBDA val :
    Then(_skip(src, val.i, val.comments), LAMBDA sk :
    Let(_peek(src, sk.i, 0), LAMBDA c :
    Let(Append(items, val.out), LAMBDA all :
    IF c = ","
    THEN Then(_skip(src, sk.i + 1, sk.comments), LAMBDA sk2 :
              ArrayLoop(src, sk2.i, sk2.comments, all))
    ELSE IF c = "]" THEN Ok(sk.i + 1, sk.comments, ArrayText(all))
    ELSE IF sk.nl THEN ArrayLoop(src, sk.i, sk.comments, all)
    ELSE _err(sk.i, sk.comments, "Expected ',', newline, or ']' after array item")))))

\* The loop of _read_array (lines 285-301); items holds the item texts.
ArrayLoop(src, p, cs, items) ==
    Then(_read_value(src, p, cs), LAMBDA val :
    Then(_skip(src, val.i, val.comments), LAMBDA sk :
    Let(_peek(src, sk.i, 0), LAMBDA c :
    Let(Append(items, val.out), LAMBDA all :
    IF c = ","
    THEN Then(_skip(src, sk.i + 1, sk.comments), LAMBDA sk2 :
              IF _peek(src, sk2.i, 0) = "]"
              THEN Ok(sk2.i + 1, sk2.comments, ArrayText(all))
              ELSE ArrayLoop(src, sk2.i, sk2.comments, all))
    ELSE IF c = "]" THEN Ok(sk.i + 1, sk.comments, ArrayText(all))
    ELSE IF sk.nl THEN ArrayLoop(src, sk.i, sk.comments, all)
    ELSE _err(sk.i, sk.comments, "Expected ',', newline, or ']' after array item")))))

\* self._read_array()
_read_array(src, p, cs) ==
    IF _peek(src, p, 0) # "[" THEN _err(p + 1, cs, "Expected '['")
    ELSE Then(_skip(src, p + 1, cs), LAMBDA sk :
              IF _peek(src, sk.i, 0) = "]" THEN Ok(sk.i + 1, sk.comments, <<"[", "]">>)
              ELSE ArrayLoop(src, sk.i, sk.comments, <<>>))

\* Lines 180-187 of _read_value: a quote opens a multi-quote when it is
\* repeated three times or more, a string otherwise.
ReadQuoted(src, p, cs, run) ==
    IF run = Diverges THEN Hang(p, cs)
    ELSE IF run >= 3 THEN _read_multiquote(src, p, cs)
    ELSE _read_string(src, p, cs)

\* self._read_value()
_read_value(src, p, cs) ==
    Then(_skip(src, p, cs), LAMBDA sk :
    Let(_peek(src, sk.i, 0), LAMBDA c :
    IF c = "{" THEN _read_object(src, sk.i, sk.comments)
    ELSE IF c = "[" THEN _read_array(src, sk.i, sk.comments)
    ELSE IF InStr(c, {"\"", "'"})
         THEN ReadQuoted(src, sk.i, sk.comments, QuoteRun(src, sk.i, c))
    ELSE IF c = "@" THEN _read_verbatim(src, sk.i, sk.comments)
    ELSE ReadBareValue(src, sk.i, sk.comments)))

\* json of a braceless object from its "key:value" texts (line 242)
BracelessText(pairs) == <<"{">> \o Join(pairs, <<",">>) \o <<"}">>

\* The loop of _read_braceless_object (lines 222-241); pairs holds the
\* "key:value" texts.
RECURSIVE BracelessLoop(_, _, _, _)
BracelessLoop(src, p, cs, pairs) ==
    Then(_skip(src, p, cs), LAMBDA sk :
    IF _eof(src, sk.i) THEN Ok(sk.i, sk.comments, BracelessText(pairs))
    ELSE
    Then(_read_key_json(src, sk.i, sk.comments), LAMBDA key :
    Then(_skip(src, key.i, key.comments), LAMBDA sk2 :
    IF _peek(src, sk2.i, 0) # ":"
    THEN _err(sk2.i, sk2.comments, "Expected ':' in braceless object")
    ELSE
    Then(_read_value(src, sk2.i + 1, sk2.comments), LAMBDA val :
    Then(_skip(src, val.i, val.comments), LAMBDA sk3 :
    Let(Append(pairs, key.out \o <<":">> \o val.out), LAMBDA all :
    IF _eof(src, sk3.i) THEN Ok(sk3.i, sk3.comments, BracelessText(all))
    ELSE IF _peek(src, sk3.i, 0) = "," THEN BracelessLoop(src, sk3.i + 1, sk3.comments, all)
    ELSE IF sk3.nl THEN BracelessLoop(src, sk3.i, sk3.comments, all)
    ELSE _err(sk3.i, sk3.comments, "Expected ',' or newline after braceless pair")))))))

\* self._read_braceless_object()
_read_braceless_object(src, p, cs) == BracelessLoop(src, p, cs, <<>>)

\* A lookahead that never takes the root for a braceless object.
RootLookaheadNever(src, save, cs) == [is_obj |-> FALSE, comments |-> cs]

\* Lines 436-443 of _read_root_json: the lookahead that decides whether the
\* root is a braceless object.  It reads a key and skips to the next
\* character; any exception means "no".  [is_obj, comments]: the cursor is
\* restored by the caller, the comments the lookahead recorded stay.
RootLookahead(src, save, cs) ==
    Let(_read_key_json(src, save, cs), LAMBDA key :
    IF key.kind # "ok" THEN [is_obj |-> FALSE, comments |-> key.comments]
    ELSE
    Let(_skip(src, key.i, key.comments), LAMBDA sk :
    IF sk.kind # "ok" THEN [is_obj |-> FALSE, comments |-> sk.comments]
    ELSE [is_obj |-> _peek(src, sk.i, 0) = ":", comments |-> sk.comments]))

\* self._read_root_json()
_read_root_json(src, p, cs) ==
    Then(_skip(src, p, cs), LAMBDA sk :
    IF InStr(_peek(src, sk.i, 0), {"{", "["}) THEN _read_value(src, sk.i, sk.comments)
    ELSE
    Let(RootLookahead(src, sk.i, sk.comments), LAMBDA look :
    IF look.is_obj THEN _read_braceless_object(src, sk.i, look.comments)
    ELSE _read_value(src, sk.i, look.comments)))

\* self.to_json() on a new reader
to_json(src) ==
    Then(_skip(src, 0, <<>>), LAMBDA sk :
    Then(_read_root_json(src, sk.i, sk.comments), LAMBDA root :
    Then(_skip(src, root.i, root.comments), LAMBDA sk2 :
    IF ~_eof(src, sk2.i) THEN _err(sk2.i, sk2.comments, "Trailing characters")
    ELSE Ok(sk2.i, sk2.comments, root.out))))

-----------------------------------------------------------------------------
(* The inputs                                                              *)

\* The JSONH texts of src/JsonhPyTests.py.
test_BasicObjectTest ==
    <<"\n", "{", "\n", " ", " ", " ", " ", "\"", "a", "\"", ":", " ", "\"",
      "b", "\"", "\n", "}", "\n">>

test_ArrayTest ==
    <<"\n", "[", "\n", " ", " ", " ", " ", "1", ",", " ", "2", ",", "\n",
      " ", " ", " ", " ", "3", "\n", " ", " ", " ", " ", "4", " ", "5", ",",
      " ", "6", "\n", "]", "\n">>

test_BracelessObjectTest ==
    <<"\n", "a", ":", " ", "b", "\n", "c", " ", ":", " ", "d", "\n">>

test_CommentTest_array ==
    <<"\n", "[", "\n", " ", " ", " ", " ", "1", " ", "#", " ", "h", "a", "s",
      "h", " ", "c", "o", "m", "m", "e", "n", "t", "\n", " ", " ", " ", " ",
      " ", " ", " ", " ", "2", " ", "/", "/", " ", "l", "i", "n", "e", " ",
      "c", "o", "m", "m", "e", "n", "t", "\n", " ", " ", " ", " ", " ", " ",
      " ", " ", "3", " ", "/", "*", " ", "b", "l", "o", "c", "k", " ", "c",
      "o", "m", "m", "e", "n", "t", " ", "*", "/", ",", " ", "4", "\n", "]",
      "\n">>

test_CommentTest ==
    <<"\n", "1", "\n", "2", "\n">>

test_CommentTest_blank ==
    <<"\n", "1", "\n", "\n", "\n">>

test_QuotelessStringStartingWithKeywordTest ==
    <<"\n", "[", "n", "u", "l", "l", "a", ",", " ", "n", "u", "l", "l", " ",
      "b", ",", " ", "n", "u", "l", "l", ",", " ", "@", "n", "u", "l", "l",
      "]", "\n">>

test_BracelessObjectWithInvalidValueTest ==
    <<"\n", "a", ":", " ", "{", "\n">>

test_NestedBracelessObjectTest ==
    <<"\n", "[", "\n", " ", " ", " ", " ", "a", ":", " ", "b", "\n", " ",
      " ", " ", " ", "c", ":", " ", "d", "\n", "]", "\n">>

test_QuotelessStringsLeadingTrailingWhitespaceTest ==
    <<"\n", "[", "\n", " ", " ", " ", " ", "a", " ", "b", " ", " ", ",", " ",
      "\n", "]", "\n">>

test_HexNumberWithETest ==
    <<"\n", "0", "x", "5", "e", "3", "\n">>

test_DuplicatePropertyNameTest ==
    <<"\n", "{", "\n", " ", " ", "a", ":", " ", "1", ",", "\n", " ", " ",
      "c", ":", " ", "2", ",", "\n", " ", " ", "a", ":", " ", "3", ",", "\n",
      "}", "\n">>

test_FirstPropertyNameInBracelessObjectTest_a ==
    <<"\n", "a", ":", " ", "b", "\n">>

test_FirstPropertyNameInBracelessObjectTest_0 ==
    <<"\n", "0", ":", " ", "b", "\n">>

test_FirstPropertyNameInBracelessObjectTest_true ==
    <<"\n", "t", "r", "u", "e", ":", " ", "b", "\n">>

TestInputs ==
    {test_BasicObjectTest,
     test_ArrayTest,
     test_BracelessObjectTest,
     test_CommentTest_array,
     test_CommentTest,
     test_CommentTest_blank,
     test_QuotelessStringStartingWithKeywordTest,
     test_BracelessObjectWithInvalidValueTest,
     test_NestedBracelessObjectTest,
     test_QuotelessStringsLeadingTrailingWhitespaceTest,
     test_HexNumberWithETest,
     test_DuplicatePropertyNameTest,
     test_FirstPropertyNameInBracelessObjectTest_a,
     test_FirstPropertyNameInBracelessObjectTest_0,
     test_FirstPropertyNameInBracelessObjectTest_true}


\* Bounds of the generated texts.
MaxRoot == 4
MaxPairsTail == 3
MaxObjectTail == 3
MaxArrayBody == 4
MaxItemTail == 3
MaxWordTail == 2

SeqsUpTo(S, n) == UNION {[1..k -> S] : k \in 0..n}

\* Texts of a root element followed by blanks, comments and further text.
RootTexts == SeqsUpTo({"1", "a", " ", "\n", "#"}, MaxRoot)

\* Braceless roots: the text up to the value of the first or of the second
\* pair, and what follows it.
PairsPrefixes ==
    {<<"a", ":">>, <<"a", ":", "a", "\n", "a", ":">>,
     <<"a", ":", "a", ",", "a", ":">>}

PairsTexts ==
    {pre \o t :
        pre \in PairsPrefixes,
        t \in SeqsUpTo({"a", ":", ",", "\n", " "}, MaxPairsTail)}

\* Braced objects: the text up to the value of the first or of the second
\* property, and what follows it.
ObjectPrefixes ==
    {<<"{", "a", ":">>, <<"{", "a", ":", "a", ",", "a", ":">>}

ObjectTexts ==
    {pre \o t :
        pre \in ObjectPrefixes,
        t \in SeqsUpTo({"a", ":", ",", "\n", " ", "}"}, MaxObjectTail)}

\* Closed arrays of quoteless items.
ArrayTexts ==
    {<<"[">> \o t \o <<"]">> :
        t \in SeqsUpTo({"a", "1", " ", ",", "\n"}, MaxArrayBody)}

\* Arrays whose first item is followed by arbitrary text.
ItemTexts ==
    {<<"[", "a">> \o t :
        t \in SeqsUpTo({"a", ":", ",", "\n", " ", "]"}, MaxItemTail)}

\* Quoteless lexemes around the three keywords.
Keywords == {<<"n", "u", "l", "l">>, <<"t", "r", "u", "e">>,
             <<"f", "a", "l", "s", "e">>}

WordTexts ==
    {pre \o k \o t :
        pre \in {<<>>, <<" ">>, <<"@">>, <<"a">>}, k \in Keywords,
        t \in SeqsUpTo({"a", " ", "_", "\n"}, MaxWordTail)}

Inputs ==
    TestInputs \cup RootTexts \cup PairsTexts \cup ObjectTexts
        \cup ArrayTexts \cup ItemTexts \cup WordTexts

-----------------------------------------------------------------------------
(* JSONHReader as a state machine                                          *)

\* JSONHReader.__init__ (the fields of the other classes are unused here).
Init ==
    /\ source \in Inputs
    /\ i = 0
    /\ comments = <<>>
    /\ status = "new"
    /\ out = <<>>
    /\ msg = <<"", "">>
    /\ saved = 0
    /\ res = None
    /\ call = None
    /\ tokens = <<>>
    /\ options = None
    /\ token_count = 0
    /\ current_elements = <<>>
    /\ current_property_name = None
    /\ built = None

\* One call of JSONHReader.to_json(): "ok" with the JSON text, "raise" with
\* the exception's class and message, or "hang" when the call never returns.
ToJson ==
    /\ status = "new"
    /\ LET r == to_json(source) IN
        /\ i' = r.i
        /\ comments' = r.comments
        /\ status' = r.kind
        /\ out' = r.out
        /\ msg' = IF r.kind = "raise" THEN <<r.exc, r.msg>> ELSE <<"", "">>
    /\ UNCHANGED <<source, saved, resultVars, builderVars>>

Next == ToJson

Spec == Init /\ [][Next]_vars

-----------------------------------------------------------------------------
(* Properties of JSONHReader.to_json                                       *)

\* C2: with parse_single_element off (the default) a second element after
\* the root is not an error: "1", a newline and any further text parse to
\* the root 1, and so does "1" followed by blank lines.
C2_TextAfterRootIsAccepted ==
    (status # "new" /\ Len(source) >= 2 /\ source[1] = "1" /\ source[2] = "\n")
        => (status = "ok" /\ out = <<"1">>)

\* to_json ended on the text "1", newline, "1".
C2_SecondElementRead ==
    status # "new" /\ source = <<"1", "\n", "1">>

\* The texts holding nothing but whitespace and comments.
IsBlankText(src) ==
    LET sk == _skip(src, 0, <<>>) IN sk.kind = "ok" /\ _eof(src, sk.i)

\* C3: a text holding only whitespace and comments is an error with the
\* message 'Expected token, got end of input'.
C3_BlankTextIsError ==
    (status # "new" /\ IsBlankText(source))
        => (status = "raise" /\ msg[2] = "Expected token, got end of input")

\* to_json ended on the empty text.
C3_EmptyTextRead ==
    status # "new" /\ source = <<>>

\* C4: the parse entry point hands every failure back as a result; no
\* exception propagates to the caller.
C4_NoExceptionPropagates ==
    status # "raise"

\* Whether to_json reads the root of src with _read_braceless_object.
TakesBracelessPath(src) ==
    LET sk == _skip(src, 0, <<>>) IN
    /\ sk.kind = "ok"
    /\ ~InStr(_peek(src, sk.i, 0), {"{", "["})
    /\ RootLookahead(src, sk.i, sk.comments).is_obj

\* C5: a root of name:value pairs parses to the object the same pairs give
\* inside braces (the closing brace on a line of its own, or directly behind
\* the text when that ends neither in a comment nor in a backslash), and a
\* name such as 0 or true is a string key.
C5_BracelessSameAsBraced ==
    status # "new" =>
        /\ (status = "ok" /\ TakesBracelessPath(source)) =>
            LET braced == to_json(<<"{">> \o source \o <<"\n", "}">>)
                direct == to_json(<<"{">> \o source \o <<"}">>)
            IN
            /\ braced.kind = "ok" /\ braced.out = out
            /\ (comments = <<>> /\ source[Len(source)] # "\\")
                    => (direct.kind = "ok" /\ direct.out = out)
        /\ source = test_BracelessObjectTest =>
            /\ status = "ok"
            /\ out = <<"{", "\"", "a", "\"", ":", "\"", "b", "\"", ",",
                       "\"", "c", "\"", ":", "\"", "d", "\"", "}">>
        /\ source = test_FirstPropertyNameInBracelessObjectTest_0 =>
            /\ status = "ok"
            /\ out = <<"{", "\"", "0", "\"", ":", "\"", "b", "\"", "}">>
        /\ source = test_FirstPropertyNameInBracelessObjectTest_true =>
            /\ status = "ok"
            /\ out = <<"{", "\"", "t", "r", "u", "e", "\"", ":",
                       "\"", "b", "\"", "}">>

\* A braceless root of two pairs separated by a newline was parsed.
C5_TwoPairsParsed ==
    /\ status = "ok"
    /\ source = <<"a", ":", "a", "\n", "a", ":", "a">>
    /\ TakesBracelessPath(source)

\* The first position from p on that holds no whitespace (Len(src) if none).
RECURSIVE BlankEnd(_, _)
BlankEnd(src, p) ==
    IF p < Len(src) /\ src[p + 1] \in WhitespaceChars
    THEN BlankEnd(src, p + 1)
    ELSE p

\* Whether a newline stands at one of the positions a .. b - 1.
HasNewline(src, a, b) ==
    \E k \in a .. b - 1 : src[k + 1] \in {"\n", "\r"}

\* Whether only whitespace follows position p.
BlankFrom(src, p) == BlankEnd(src, p) >= Len(src)

ObjectPairMessage ==
    <<"JSONHSyntaxError", "Expected ',', newline, or '}' after object pair">>

\* The JSON text to_json builds for the properties of an object prefix.
PrefixJson(pre) ==
    IF Len(pre) = 3 THEN <<"{", "\"", "a", "\"", ":">>
    ELSE <<"{", "\"", "a", "\"", ":", "\"", "a", "\"", ",", "\"", "a", "\"", ":">>

\* C6: in a braced object the text behind a property's value must go on,
\* after blanks, with ',', a newline or '}', else the parse fails with the
\* object-pair message; '}' closes the object, and one ',' before '}' is
\* accepted and adds no property, while ',,' is not accepted.
C6_SeparatorAfterProperty ==
    status # "new" =>
        \A pre \in ObjectPrefixes :
            (Len(source) >= Len(pre) /\ SubSeq(source, 1, Len(pre)) = pre) =>
                LET val == _read_value(source, Len(pre), <<>>)
                    q == BlankEnd(source, val.i)
                    c == _peek(source, q, 0)
                    nl == HasNewline(source, val.i, q)
                    q2 == BlankEnd(source, q + 1)
                    one == PrefixJson(pre) \o val.out \o <<"}">>
                IN
                val.kind = "ok" =>
                    /\ (c \notin {",", "}"} /\ ~nl) =>
                        (status = "raise" /\ msg = ObjectPairMessage)
                    /\ (c = "}" /\ BlankFrom(source, q + 1)) =>
                        (status = "ok" /\ out = one)
                    /\ (c = "," /\ _peek(source, q2, 0) = "}"
                            /\ BlankFrom(source, q2 + 1)) =>
                        (status = "ok" /\ out = one)
                    /\ (c = "," /\ _peek(source, q2, 0) = ",") =>
                        status = "raise"

\* A braced object whose only property is followed by ',' and '}' was parsed.
C6_TrailingCommaParsed ==
    status = "ok" /\ source = <<"{", "a", ":", "a", ",", "}">>

\* A braced object whose second property is followed by ':' was rejected.
C6_MissingSeparatorRejected ==
    /\ status = "raise"
    /\ msg = ObjectPairMessage
    /\ source = <<"{", "a", ":", "a", ",", "a", ":", "a", ":", "a">>

\* The pieces of s between the occurrences of sep.
RECURSIVE SplitAt(_, _)
SplitAt(s, sep) ==
    LET k == Find(s, sep) IN
    IF k < 0 THEN <<s>>
    ELSE <<Slice(s, 0, k)>> \o SplitAt(Slice(s, k + 1, Len(s)), sep)

\* The non-blank lines of a text, trimmed.
ItemsOfSegment(seg) ==
    LET lines == SplitAt(seg, "\n") IN
    SelectSeq([k \in DOMAIN lines |-> Strip(lines[k])], LAMBDA l : l # <<>>)

RECURSIVE Flatten(_)
Flatten(ss) == IF ss = <<>> THEN <<>> ELSE Head(ss) \o Flatten(Tail(ss))

ArrayChars == {"a", "1", " ", ",", "\n"}

\* "[" body "]" with a body of letters, digits, blanks, commas and newlines.
IsArrayText(src) ==
    /\ Len(src) >= 2
    /\ src[1] = "["
    /\ src[Len(src)] = "]"
    /\ \A k \in 2 .. Len(src) - 1 : src[k] \in ArrayChars

\* The items the body of such an array describes: its comma-separated
\* pieces hold one item per non-blank line.
SegmentsOf(src) == SplitAt(Slice(src, 1, Len(src) - 1), ",")

\* No element is missing: only behind the last comma may nothing follow.
NoMissingItem(src) ==
    LET segs == SegmentsOf(src) IN
    \A k \in 1 .. Len(segs) - 1 : ItemsOfSegment(segs[k]) # <<>>

ItemsOf(src) ==
    LET segs == SegmentsOf(src) IN
    Flatten([k \in DOMAIN segs |-> ItemsOfSegment(segs[k])])

\* The JSON text of an item: a run of digits is a number, the rest a string.
ItemJson(item) ==
    IF \A k \in DOMAIN item : item[k] = "1" THEN item
    ELSE <<"\"">> \o item \o <<"\"">>

ArrayJson(items) ==
    <<"[">> \o Join([k \in DOMAIN items |-> ItemJson(items[k])], <<",">>)
        \o <<"]">>

\* C7: an array yields one item per element in source order; elements are
\* separated by ',' or by a newline, a comma next to newlines is one
\* separator, blanks inside a quoteless item stay in it, and a ',' before
\* ']' adds no item.
C7_OneItemPerElement ==
    status # "new" =>
        /\ (IsArrayText(source) /\ NoMissingItem(source)) =>
            (status = "ok" /\ out = ArrayJson(ItemsOf(source)))
        /\ source = test_ArrayTest =>
            /\ status = "ok"
            /\ out = <<"[", "1", ",", "2", ",", "3", ",",
                       "\"", "4", " ", "5", "\"", ",", "6", "]">>

\* An array of two elements on two lines with a trailing comma was parsed.
C7_ArrayOfTwoParsed ==
    status = "ok" /\ source = <<"[", "a", "\n", "1", ",", "]">>

\* Texts in which every ':' , '[' and ']' is structure: no object, no
\* quote, no comment, no escape and no verbatim mark.
IsPlainText(src) ==
    \A k \in DOMAIN src : src[k] \notin {"{", "}", "\"", "'", "#", "/", "\\", "@"}

\* The number of arrays open in front of the character at index k.
Depth(src, k) ==
    Cardinality({j \in 1 .. k - 1 : src[j] = "["})
        - Cardinality({j \in 1 .. k - 1 : src[j] = "]"})

ArrayItemMessage ==
    <<"JSONHSyntaxError", "Expected ',', newline, or ']' after array item">>

\* C8: a ':' directly inside '[' ']' never parses: when the first item of
\* an array is followed by ':' the parse fails with the array-item message,
\* and no text with a ':' inside an open array parses successfully.
C8_ColonInsideArrayFails ==
    status # "new" =>
        /\ (Len(source) >= 1 /\ source[1] = "[") =>
            LET val == _read_value(source, 1, <<>>)
                q == BlankEnd(source, val.i)
            IN
            (val.kind = "ok" /\ _peek(source, q, 0) = ":") =>
                (status = "raise" /\ msg = ArrayItemMessage)
        /\ (IsPlainText(source)
                /\ \E k \in DOMAIN source :
                        source[k] = ":" /\ Depth(source, k) > 0) =>
            status = "raise"
        /\ source = test_NestedBracelessObjectTest => status = "raise"

\* An array holding name:value was rejected.
C8_PairInArrayRejected ==
    status = "raise" /\ source = <<"[", "a", ":", "a", "]">>

WordChars ==
    {"n", "u", "l", "t", "r", "e", "f", "a", "s", " ", "_", "\n", "@"}

IsWordText(src) == \A k \in DOMAIN src : src[k] \in WordChars

Quoted(s) == <<"\"">> \o s \o <<"\"">>

\* C10: a quoteless lexeme is a keyword only when, trimmed, it is exactly
\* null, true or false; a lexeme that merely starts with a keyword is a
\* string, and a verbatim @-lexeme is a string even when it spells a
\* keyword.  In an array: nulla and null b are strings, null is the keyword,
\* @null is the string "null".
C10_KeywordOnlyWhenExact ==
    status # "new" =>
        /\ IsWordText(source) =>
            LET w == Strip(source)
                v == Strip(Tail(w))
            IN
            /\ w \in Keywords => (status = "ok" /\ out = w)
            /\ (w \notin Keywords /\ w # <<>> /\ Find(w, "\n") < 0
                    /\ Find(w, "@") < 0) =>
                (status = "ok" /\ out = Quoted(w))
            /\ (w # <<>> /\ w[1] = "@" /\ v # <<>> /\ Find(v, "\n") < 0
                    /\ Find(v, "@") < 0) =>
                (status = "ok" /\ out = Quoted(v))
        /\ source = test_QuotelessStringStartingWithKeywordTest =>
            /\ status = "ok"
            /\ out = <<"[">> \o Quoted(<<"n", "u", "l", "l", "a">>) \o <<",">>
                     \o Quoted(<<"n", "u", "l", "l", " ", "b">>) \o <<",">>
                     \o <<"n", "u", "l", "l">> \o <<",">>
                     \o Quoted(<<"n", "u", "l", "l">>) \o <<"]">>

\* The lexeme nulla was read as a string.
C10_NullaIsString ==
    status = "ok" /\ source = <<"n", "u", "l", "l", "a">>

-----------------------------------------------------------------------------
(* JsonhResult (JsonhPy-new.py)                                            *)

PyInt(n) == [type |-> "int", v |-> n]
PyStr(s) == [type |-> "str", v |-> s]

\* How a call ends: it returns an object or raises an exception.
Returned(v) == [kind |-> "return", ret |-> v]
Raised(exc, text) == [kind |-> "raise", exc |-> exc, text |-> text]

JsonhResult(is_error, value_or_none, error_or_none) ==
    [type |-> "JsonhResult", is_error |-> is_error,
     value_or_none |-> value_or_none, error_or_none |-> error_or_none]

from_value(v) == JsonhResult(TRUE, v, None)

from_error(e) == JsonhResult(FALSE, None, e)

value(self) ==
    IF self.is_error
    THEN Raised("RuntimeError", <<"Result was error: ", self.error_or_none>>)
    ELSE Returned(self.value_or_none)

error(self) ==
    IF ~self.is_error
    THEN Raised("RuntimeError", <<"Result was value: ", self.value_or_none>>)
    ELSE Returned(self.error_or_none)

JsonTokenType ==
    {"NONE", "START_OBJECT", "END_OBJECT", "START_ARRAY", "END_ARRAY",
     "PROPERTY_NAME", "COMMENT", "STRING", "NUMBER", "TRUE", "FALSE", "NULL"}

JsonhToken(json_type, lexeme) ==
    [type |-> "JsonhToken", json_type |-> json_type, value |-> lexeme]

\* The tokens and messages the results of this model carry.
Lexemes == {"", "a", "1", "0x5e3"}
Tokens == {JsonhToken(ty, l) : ty \in JsonTokenType, l \in Lexemes}
Messages ==
    {PyStr("Expected token, got end of input"),
     PyStr("Expected end of elements"),
     PyStr("Token type not implemented")}
MaxValue == 3
Values == Tokens \cup {PyInt(n) : n \in 0..MaxValue}

InitResult ==
    /\ res = None
    /\ call = None
    /\ source = <<>>
    /\ i = 0
    /\ comments = <<>>
    /\ status = "new"
    /\ out = <<>>
    /\ msg = <<"", "">>
    /\ saved = 0
    /\ tokens = <<>>
    /\ options = None
    /\ token_count = 0
    /\ current_elements = <<>>
    /\ current_property_name = None
    /\ built = None

\* res = JsonhResult.from_value(v)
FromValue ==
    /\ \E v \in Values :
        /\ res' = from_value(v)
        /\ call' = [made |-> "from_value", arg |-> v, op |-> "none"]
    /\ UNCHANGED <<readerVars, builderVars>>

\* res = JsonhResult.from_error(e)
FromError ==
    /\ \E e \in Messages :
        /\ res' = from_error(e)
        /\ call' = [made |-> "from_error", arg |-> e, op |-> "none"]
    /\ UNCHANGED <<readerVars, builderVars>>

\* res.value()
CallValue ==
    /\ res # None
    /\ call' = [made |-> call.made, arg |-> call.arg, op |-> "value",
                end |-> value(res)]
    /\ UNCHANGED <<res, readerVars, builderVars>>

\* res.error()
CallError ==
    /\ res # None
    /\ call' = [made |-> call.made, arg |-> call.arg, op |-> "error",
                end |-> error(res)]
    /\ UNCHANGED <<res, readerVars, builderVars>>

NextResult == FromValue \/ FromError \/ CallValue \/ CallError

SpecResult == InitResult /\ [][NextResult]_vars

\* C1: a result made from a value v is a success (is_error false, value()
\* returns v, error() fails); a result made from an error e is a failure
\* (is_error true, error() returns e, value() fails).
C1_ValueIsSuccessErrorIsFailure ==
    res # None =>
        /\ call.made = "from_value" =>
            /\ res.is_error = FALSE
            /\ call.op = "value" => call.end = Returned(call.arg)
            /\ call.op = "error" => call.end.kind = "raise"
        /\ call.made = "from_error" =>
            /\ res.is_error = TRUE
            /\ call.op = "error" => call.end = Returned(call.arg)
            /\ call.op = "value" => call.end.kind = "raise"

\* value() was called on the result of from_value(1).
C1_ValueCalledOnValue ==
    /\ res # None
    /\ call.made = "from_value"
    /\ call.arg = PyInt(1)
    /\ call.op = "value"

-----------------------------------------------------------------------------
(* JsonhReader.parse_element (JsonhPy-new.py)                              *)

\* JsonhReaderOptions: the class declares no attribute; a caller may set
\* parse_single_element on the instance.
DefaultOptions == [type |-> "JsonhReaderOptions"]
OptionsWith(b) == [type |-> "JsonhReaderOptions", parse_single_element |-> b]
OptionChoices == {DefaultOptions, OptionsWith(FALSE), OptionsWith(TRUE)}

\* token_result.error and token_result.value without a call: the bound method.
BoundMethod(name) == [type |-> "method", name |-> name]

\* The results read_element yields: successes carrying a token, ended by the
\* first failure.
TokenChoices ==
    {JsonhToken("START_OBJECT", "{"), JsonhToken("END_OBJECT", "}"),
     JsonhToken("START_ARRAY", "["), JsonhToken("END_ARRAY", "]"),
     JsonhToken("PROPERTY_NAME", "a"), JsonhToken("COMMENT", "c"),
     JsonhToken("STRING", "a"), JsonhToken("NUMBER", "1"),
     JsonhToken("NUMBER", "2"), JsonhToken("NUMBER", "0x5e3"),
     JsonhToken("TRUE", "true"), JsonhToken("FALSE", "false"),
     JsonhToken("NULL", "null")}

MaxTokens == 2

TokenStreams ==
    LET oks == {[k \in DOMAIN s |-> from_value(s[k])] :
                    s \in SeqsUpTo(TokenChoices, MaxTokens)}
    IN  (oks \ {<<>>}) \cup {s \o <<from_error(m)>> : s \in oks, m \in Messages}
        \cup {<<from_value(JsonhToken("START_ARRAY", "[")),
                from_value(JsonhToken("NUMBER", "1")),
                from_value(JsonhToken("NUMBER", "2")),
                from_value(JsonhToken("END_ARRAY", "]"))>>}

\* One pass of the loop of parse_next_element over the results from the
\* k-th on: [end, taken, elements, name].  Line 165 tests is_error, line 166
\* passes the bound method error on, and line 169 asks the bound method value
\* for json_type, which raises before any case of the match is tried.
parse_next_element(toks, k, elements, name) ==
    IF k > Len(toks)
    THEN [end |-> Returned(None), taken |-> k - 1,
          elements |-> elements, name |-> name]
    ELSE IF toks[k].is_error
    THEN [end |-> Returned(from_error(BoundMethod("error"))), taken |-> k,
          elements |-> elements, name |-> name]
    ELSE [end |-> Raised("AttributeError",
                         <<"'method' object has no attribute 'json_type'">>),
          taken |-> k, elements |-> elements, name |-> name]

\* parse_element: the loop, then the check that one element was given.
parse_element(toks, opts) ==
    LET nx == parse_next_element(toks, 1, <<>>, None) IN
    IF nx.end.kind = "raise" THEN nx
    ELSE IF "parse_single_element" \notin DOMAIN opts
    THEN [nx EXCEPT !.end = Raised("AttributeError",
            <<"'JsonhReaderOptions' object has no attribute 'parse_single_element'">>)]
    ELSE IF opts.parse_single_element
    THEN [nx EXCEPT !.end = Raised("AttributeError",
            <<"'JsonhReader' object has no attribute '_read_end_of_elements'">>)]
    ELSE nx

InitBuilder ==
    /\ tokens \in TokenStreams
    /\ options \in OptionChoices
    /\ token_count = 0
    /\ current_elements = <<>>
    /\ current_property_name = None
    /\ built = None
    /\ res = None
    /\ call = None
    /\ source = <<>>
    /\ i = 0
    /\ comments = <<>>
    /\ status = "new"
    /\ out = <<>>
    /\ msg = <<"", "">>
    /\ saved = 0

\* One call of JsonhReader.parse_element().
ParseElement ==
    /\ built = None
    /\ LET r == parse_element(tokens, options) IN
        /\ built' = r.end
        /\ token_count' = r.taken
        /\ current_elements' = r.elements
        /\ current_property_name' = r.name
    /\ UNCHANGED <<tokens, options, readerVars, resultVars>>

NextBuilder == ParseElement

SpecBuilder == InitBuilder /\ [][NextBuilder]_vars

\* read_element's results for the text [1, 2].
ArrayOfTwoTokens ==
    <<from_value(JsonhToken("START_ARRAY", "[")),
      from_value(JsonhToken("NUMBER", "1")),
      from_value(JsonhToken("NUMBER", "2")),
      from_value(JsonhToken("END_ARRAY", "]"))>>

\* C9: a Number token is placed in the tree as its numeric value, not as
\* its lexeme: the tokens of [1, 2] give an array of the numbers 1 and 2,
\* and the token 0x5e3 gives the number 1507.
C9_NumberTokenIsNumeric ==
    built # None =>
        /\ tokens = <<from_value(JsonhToken("NUMBER", "0x5e3"))>> =>
            /\ built.kind = "return"
            /\ built.ret.value_or_none = PyInt(1507)
        /\ tokens = ArrayOfTwoTokens =>
            /\ built.kind = "return"
            /\ built.ret.value_or_none =
                    [type |-> "list", v |-> <<PyInt(1), PyInt(2)>>]

\* parse_element ended on the single token 0x5e3.
C9_NumberTokenParsed ==
    /\ built # None
    /\ tokens = <<from_value(JsonhToken("NUMBER", "0x5e3"))>>

-----------------------------------------------------------------------------
(* JSONHReader.to_json on number lexemes                                   *)

MaxNumberTail == 4

\* The lexemes of test_HexNumberWithETest, test_NumberWith...Test,
\* test_NumberDotTest, test_EmptyNumberTest, test_LeadingZeroWithExponentTest
\* and of the grammar's remarks on them.
NumberExamples ==
    {<<".">>,
     <<"-", ".">>,
     <<"+", ".">>,
     <<"0", "e">>,
     <<"e", "+", "2">>,
     <<"0", "x", "e", "+", "2">>,
     <<"0", "x", "5", "e", "3">>,
     <<"0", "x", "5", "e", "+", "3">>,
     <<"0", "x", "E", "e", "+", "2">>,
     <<"0", "o", "e", "+", "2">>,
     <<"0", "b", "e", "+", "2">>,
     <<"0", "x", "0", "e", "+">>,
     <<"1", "0", "0", "_", "_", "0", "0", "0">>,
     <<"0", "b", "_", "1", "0", "0">>,
     <<"_", "1">>,
     <<"1", "_">>,
     <<"1", "_", ".", "5">>,
     <<"0", "b", "0", "e", "+", "_", "1">>}

NumberPrefixes == {<<>>, <<"-">>, <<"0", "x">>, <<"0", "b">>}

NumberChars == {"1", "e", "+", ".", "_"}

\* A root that is one quoteless lexeme: a sign or base prefix, then digits,
\* exponent letters, signs, dots and underscores.
NumberTexts ==
    NumberExamples \cup
    {pre \o t : pre \in NumberPrefixes, t \in SeqsUpTo(NumberChars, MaxNumberTail)}

\* A new reader on one of the given texts.
InitOn(texts) ==
    /\ source \in texts
    /\ i = 0
    /\ comments = <<>>
    /\ status = "new"
    /\ out = <<>>
    /\ msg = <<"", "">>
    /\ saved = 0
    /\ res = None
    /\ call = None
    /\ tokens = <<>>
    /\ options = None
    /\ token_count = 0
    /\ current_elements = <<>>
    /\ current_property_name = None
    /\ built = None

InitNumbers == InitOn(NumberTexts)

SpecNumbers == InitNumbers /\ [][Next]_vars

DecimalDigits == {"0", "1", "2", "3", "4", "5", "6", "7", "8", "9"}

StartsLikeNumber(s) == s # <<>> /\ s[1] \in DecimalDigits \cup {"+", "-", "."}

\* C11: a quoteless lexeme that starts with a digit, a sign or a dot and
\* that the number parser rejects is read as the string of the lexeme
\* itself, not as an error and not as a number; ".", "-.", "+.", "0e", "e+2"
\* and "0xe+2" are such strings.
C11_RejectedNumberIsString ==
    /\ (status # "new" /\ StartsLikeNumber(source) /\ ~to_decimal_literal(source).ok)
           => (status = "ok" /\ out = Quoted(source))
    /\ (status # "new" /\ source \in {<<".">>, <<"-", ".">>, <<"+", ".">>, <<"0", "e">>, <<"e", "+", "2">>, <<"0", "x", "e", "+", "2">>})
           => (status = "ok" /\ out = Quoted(source))

\* to_json ended on the lexeme 0e.
C11_EmptyExponentRead ==
    status = "ok" /\ source = <<"0", "e">> /\ out = <<"\"", "0", "e", "\"">>

\* The least position of s that holds a character of cs, 0 when none does.
FirstOf(s, cs) ==
    IF \E k \in 1..Len(s) : s[k] \in cs
    THEN CHOOSE k \in 1..Len(s) : s[k] \in cs /\ \A j \in 1..(k - 1) : s[j] \notin cs
    ELSE 0

\* The text after an optional sign.
Unsigned(s) == IF s # <<>> /\ s[1] \in {"+", "-"} THEN Tail(s) ELSE s

\* The number a JSON number text denotes, as coef * 10^exp with its sign:
\* an optional "-", digits, an optional "." with digits, an optional exponent.
JsonNumberValue(text) ==
    Let(Unsigned(text), LAMBDA body :
    Let(FirstOf(body, {"e", "E"}), LAMBDA e :
    Let(IF e = 0 THEN body ELSE SubSeq(body, 1, e - 1), LAMBDA mant :
    Let(IF e = 0 THEN <<>> ELSE SubSeq(body, e + 1, Len(body)), LAMBDA ex :
    Let(FirstOf(mant, {"."}), LAMBDA dot :
    Let(IF dot = 0 THEN <<>> ELSE SubSeq(mant, dot + 1, Len(mant)), LAMBDA frac :
        [neg  |-> text[1] = "-",
         coef |-> IntOf((IF dot = 0 THEN mant ELSE SubSeq(mant, 1, dot - 1)) \o frac, 10),
         exp  |-> (IF ex # <<>> /\ ex[1] = "-" THEN -IntOf(Unsigned(ex), 10)
                   ELSE IntOf(Unsigned(ex), 10)) - Len(frac)]))))))

\* A JSON text that is a number: a string opens with a quote, a keyword
\* with a letter.
IsNumberOut(o) == o # <<>> /\ o[1] \in DecimalDigits \cup {"-"}

\* The JSON text o is a number whose value is the natural number n.
Denotes(o, n) ==
    /\ IsNumberOut(o)
    /\ \A k \in 1..Len(o) : o[k] \in DecimalDigits \cup {"-", "+", ".", "E", "e"}
    /\ Let(JsonNumberValue(o), LAMBDA v :
           /\ v.neg => v.coef = 0
           /\ IF v.exp >= 0 THEN v.coef * Pow(10, v.exp) = n
              ELSE v.coef = n * Pow(10, -v.exp))

HasBasePrefix(src) == Len(src) >= 2 /\ src[1] = "0" /\ src[2] \in {"x", "b", "o"}

BaseOfPrefix(src) == IF src[2] = "x" THEN 16 ELSE IF src[2] = "b" THEN 2 ELSE 8

\* The least position of an e that a sign follows, 0 when there is none.
MarkerAt(t) ==
    IF \E k \in 1..(Len(t) - 1) : t[k] \in {"e", "E"} /\ t[k + 1] \in {"+", "-"}
    THEN CHOOSE k \in 1..(Len(t) - 1) :
            /\ t[k] \in {"e", "E"} /\ t[k + 1] \in {"+", "-"}
            /\ \A j \in 1..(k - 1) : ~(t[j] \in {"e", "E"} /\ t[j + 1] \in {"+", "-"})
    ELSE 0

AllDigits(t, base) == t # <<>> /\ \A k \in 1..Len(t) : Lower(t[k]) \in BaseDigits(base)

\* What C12 asks of a lexeme with a base prefix and a body t of digits,
\* e and +.
MarkerRule(t, base) ==
    Let(MarkerAt(t), LAMBDA k :
    IF k = 0
    \* no exponent: every e is a digit character of the base, or no digit
    THEN IF AllDigits(t, base)
         THEN status = "ok" /\ Denotes(out, IntOf(t, base))
         ELSE status = "ok" /\ out = Quoted(source)
    ELSE /\ (k = 1 \/ k + 1 = Len(t)) => (status = "ok" /\ out = Quoted(source))
         /\ (k > 1 /\ AllDigits(SubSeq(t, 1, k - 1), base)
                /\ SubSeq(t, k + 2, Len(t)) = <<"1">>)
                => (status = "ok"
                    /\ Denotes(out, IntOf(SubSeq(t, 1, k - 1), base) * 10)))

\* C12: in a lexeme with a base prefix an e is the exponent marker exactly
\* when a sign follows it, and a digit character otherwise: 0x5e3 is 1507,
\* 0x5e+3 is 5000, 0xEe+2 is 1400; 0xe+2, 0oe+2, 0be+2 and 0x0e+ are strings.
C12_ExponentMarkerNeedsSign ==
    /\ (status # "new" /\ HasBasePrefix(source)
            /\ \A k \in 3..Len(source) : source[k] \in {"1", "e", "+"})
           => MarkerRule(SubSeq(source, 3, Len(source)), BaseOfPrefix(source))
    /\ (status # "new" /\ source = <<"0", "x", "5", "e", "3">>) => Denotes(out, 1507)
    /\ (status # "new" /\ source = <<"0", "x", "5", "e", "+", "3">>) => Denotes(out, 5000)
    /\ (status # "new" /\ source = <<"0", "x", "E", "e", "+", "2">>) => Denotes(out, 1400)
    /\ (status # "new"
            /\ source \in {<<"0", "x", "e", "+", "2">>, <<"0", "o", "e", "+", "2">>,
                           <<"0", "b", "e", "+", "2">>, <<"0", "x", "0", "e", "+">>})
           => (status = "ok" /\ out = Quoted(source))

\* to_json ended on 0b1e1, a binary lexeme with an e that no sign follows.
C12_BinaryWithBareE ==
    status = "ok" /\ source = <<"0", "b", "1", "e", "1">>

\* The base a lexeme announces behind its optional sign.
LexemeBase(s) ==
    Let(Unsigned(s), LAMBDA u :
        IF Len(u) >= 2 /\ u[1] = "0" /\ Lower(u[2]) = "x" THEN 16
        ELSE IF Len(u) >= 2 /\ u[1] = "0" /\ Lower(u[2]) = "b" THEN 2
        ELSE IF Len(u) >= 2 /\ u[1] = "0" /\ Lower(u[2]) = "o" THEN 8
        ELSE 10)

\* Position l of s is the letter of the base prefix.
IsPrefixLetter(s, l) ==
    /\ LexemeBase(s) # 10
    /\ l = Len(s) - Len(Unsigned(s)) + 2

\* The underscore at position k stands in a run of underscores that has a
\* digit of the lexeme's base on its right and a digit or the base prefix
\* on its left.
UnderscoreOk(s, k) ==
    /\ \E r \in (k + 1)..Len(s) :
        /\ \A j \in (k + 1)..(r - 1) : s[j] = "_"
        /\ Lower(s[r]) \in BaseDigits(LexemeBase(s))
        /\ ~IsPrefixLetter(s, r)
    /\ \E l \in 1..(k - 1) :
        /\ \A j \in (l + 1)..(k - 1) : s[j] = "_"
        /\ \/ IsPrefixLetter(s, l)
           \/ Lower(s[l]) \in BaseDigits(LexemeBase(s))

\* C13: a lexeme is read as a number only if each of its underscores lies
\* between two digits of one digit run or directly behind the base prefix:
\* 100__000 is 100000 and 0b_100 is 4, while _1, 1_, 1_.5 and 0b0e+_1 are
\* strings that keep their underscores.
C13_UnderscoreOnlyInsideDigitRun ==
    /\ (status # "new" /\ IsNumberOut(out))
           => \A k \in 1..Len(source) : source[k] = "_" => UnderscoreOk(source, k)
    /\ (status # "new" /\ source = <<"1", "0", "0", "_", "_", "0", "0", "0">>)
           => Denotes(out, 100000)
    /\ (status # "new" /\ source = <<"0", "b", "_", "1", "0", "0">>) => Denotes(out, 4)
    /\ (status # "new"
            /\ source \in {<<"_", "1">>, <<"1", "_">>, <<"1", "_", ".", "5">>,
                           <<"0", "b", "0", "e", "+", "_", "1">>})
           => (status = "ok" /\ out = Quoted(source))

\* to_json ended on 1_, a digit run with a trailing underscore.
C13_TrailingUnderscoreRead ==
    status = "ok" /\ source = <<"1", "_">>

-----------------------------------------------------------------------------
(* JSONHReader.to_json on comments                                         *)

MaxCommentBody == 2
MaxCommentPieces == 4
MaxCommentTail == 4

test_NestableBlockCommentTest ==
    <<"\n", "/", "*", " ", "*", "/", "\n", "/", "=", "*", " ", "*", "=", "/", "\n", "/", "=", "=", "*", "/", "=", "*", "*", "=", "/", "*", "=", "=", "/", "\n", "/", "=", "*", "/", "=", "=", "*", "*", "=", "=", "/", "*", "=", "/", "\n", "0", "\n">>

\* The four comment forms as opening and closing delimiter.
CommentForms ==
    {<<<<"#">>, <<"\n">>>>, <<<<"/", "/">>, <<"\n">>>>,
     <<<<"/", "*">>, <<"*", "/">>>>, <<<<"/", "=", "*">>, <<"*", "=", "/">>>>}

\* A comment of each form around a short body, then the element 0.
FramedCommentTexts ==
    {f[1] \o b \o f[2] \o <<"0">> :
        f \in CommentForms, b \in SeqsUpTo({"a", " "}, MaxCommentBody)}

NestableOpeners == {<<"/", "=", "*">>, <<"/", "=", "=", "*">>}

CommentPieces ==
    NestableOpeners \cup {<<"*", "=", "/">>, <<"*", "=", "=", "/">>, <<"a">>}

\* A nestable opener followed by openers, closers and text, and by the
\* characters of the delimiters in any order.
NestableCommentTexts ==
    {pre \o Join(ps, <<>>) :
        pre \in NestableOpeners, ps \in SeqsUpTo(CommentPieces, MaxCommentPieces)}
    \cup {<<"/", "=", "*">> \o t : t \in SeqsUpTo({"/", "=", "*"}, MaxCommentTail)}

CommentTexts ==
    {test_NestableBlockCommentTest} \cup FramedCommentTexts \cup NestableCommentTexts

InitComments == InitOn(CommentTexts)

SpecComments == InitComments /\ [][Next]_vars

\* C14: the comments in front of an element are recorded in source order
\* before the element is read, each as the text between its delimiters
\* without the delimiters: the four comments of test_NestableBlockCommentTest
\* are " ", " ", "/=**=/" and "/==**==/", and a comment of any of the four
\* forms around a body is that body.
C14_CommentLexemeWithoutDelimiters ==
    /\ (status # "new" /\ source = test_NestableBlockCommentTest)
           => /\ status = "ok" /\ out = <<"0">>
              /\ comments = << <<" ">>, <<" ">>, <<"/", "=", "*", "*", "=", "/">>,
                               <<"/", "=", "=", "*", "*", "=", "=", "/">> >>
    /\ \A f \in CommentForms : \A b \in SeqsUpTo({"a", " "}, MaxCommentBody) :
        (status # "new" /\ source = f[1] \o b \o f[2] \o <<"0">>)
            => (status = "ok" /\ out = <<"0">> /\ comments = <<b>>)

\* to_json ended on the text of test_NestableBlockCommentTest with four
\* comments recorded.
C14_FourCommentsRead ==
    status = "ok" /\ source = test_NestableBlockCommentTest /\ Len(comments) = 4

\* The text holds c at 0-based position p.
HasAt(src, p, c) == p < Len(src) /\ src[p + 1] = c

\* At 0-based position p stands "/", k times "=", "*".
IsOpenerAt(src, p, k) ==
    /\ HasAt(src, p, "/")
    /\ \A d \in 1..k : HasAt(src, p + d, "=")
    /\ HasAt(src, p + k + 1, "*")

\* At 0-based position p stands "*", k times "=", "/".
IsCloserAt(src, p, k) ==
    /\ HasAt(src, p, "*")
    /\ \A d \in 1..k : HasAt(src, p + d, "=")
    /\ HasAt(src, p + k + 1, "/")

\* The arity of the opener at position p, 0 when there is none.
OpenerArity(src, p) ==
    IF \E k \in 1..Len(src) : IsOpenerAt(src, p, k)
    THEN CHOOSE k \in 1..Len(src) : IsOpenerAt(src, p, k)
    ELSE 0

Unterminated == -1

\* Where a nestable comment ends, read from position p with the arities of
\* the openers that are still open: an opener pushes its arity, a closer of
\* the innermost arity pops it, anything else is passed over.
RECURSIVE CommentEnd(_, _, _)
CommentEnd(src, p, stack) ==
    IF stack = <<>> THEN p
    ELSE IF p >= Len(src) THEN Unterminated
    ELSE IF OpenerArity(src, p) > 0
         THEN CommentEnd(src, p + OpenerArity(src, p) + 2,
                         Append(stack, OpenerArity(src, p)))
    ELSE IF IsCloserAt(src, p, stack[Len(stack)])
         THEN CommentEnd(src, p + stack[Len(stack)] + 2,
                         SubSeq(stack, 1, Len(stack) - 1))
    ELSE CommentEnd(src, p + 1, stack)

\* C15: a nestable block comment opened with k "=" ends behind the closer
\* of arity k that is met once every opener inside it has been closed by a
\* closer of its own arity; a closer of another arity than the innermost
\* open one closes nothing; when the text ends with an opener still open
\* the reader fails with "Unterminated nestable block comment"; the cursor
\* behind a terminated comment is just past its last closer, so the comment
\* recorded is the text up to there.
C15_NestableCommentClosesByArity ==
    (status # "new" /\ OpenerArity(source, 0) > 0)
        => Let(CommentEnd(source, OpenerArity(source, 0) + 2,
                          <<OpenerArity(source, 0)>>), LAMBDA e :
               IF e = Unterminated
               THEN /\ status = "raise"
                    /\ msg = <<"JSONHSyntaxError", "Unterminated nestable block comment">>
                    /\ i = Len(source)
                    /\ comments = <<>>
               ELSE /\ msg[2] # "Unterminated nestable block comment"
                    /\ comments # <<>>
                    /\ comments[1] = SubSeq(source, 1, e)
                    /\ i >= e)

\* to_json passed the comment /=*/==**=/*==/*=/: the closer *=/ inside the
\* inner comment of arity 2 closed nothing.
C15_InnerArityRespected ==
    /\ status # "new"
    /\ source = <<"/", "=", "*", "/", "=", "=", "*", "*", "=", "/", "*", "=", "=", "/",
                  "*", "=", "/">>
    /\ comments = <<source>>

-----------------------------------------------------------------------------
(* JSONHReader.to_json on verbatim strings                                 *)

MaxVerbatimBody == 2
MaxVerbatimTail == 3

\* The second text of test_VerbatimStringTest: a verbatim key and a verbatim
\* multi-quoted value, two backslashes each.
test_VerbatimStringTest ==
    <<"\n", "@", "\"", "a", "\\", "\\", "\"", ":", " ", "@", "'", "'", "'", "b", "\\", "\\", "'", "'", "'", "\n">>

Quotes == {"\"", "'"}

VerbatimBodies == SeqsUpTo({"a", "\\", " "}, MaxVerbatimBody)

\* What stands in front of and behind a verbatim string: nothing (a root
\* value), an array, a property name and its value, a property value.
VerbatimFrames ==
    {<< <<>>, <<>> >>, << <<"[">>, <<"]">> >>, << <<>>, <<":", "1">> >>,
     << <<"a", ":">>, <<>> >>}

\* @ and a quoted string.
VerbatimOf(q, b) == <<"@", q>> \o b \o <<q>>

VerbatimTexts ==
    {test_VerbatimStringTest}
    \cup {f[1] \o VerbatimOf(q, b) \o f[2] :
            f \in VerbatimFrames, q \in Quotes, b \in VerbatimBodies}
    \cup {<<"@">> \o t : t \in SeqsUpTo({"a", "\\", "\"", "'"}, MaxVerbatimTail)}

InitVerbatim == InitOn(VerbatimTexts)

SpecVerbatim == InitVerbatim /\ [][Next]_vars

\* The JSON string literal of a text of letters, blanks and backslashes.
Literal(b) ==
    <<"\"">>
    \o Join([k \in 1..Len(b) |-> IF b[k] = "\\" THEN <<"\\", "\\">> ELSE <<b[k]>>], <<>>)
    \o <<"\"">>

\* C16: @ and a quoted string is the string of exactly the characters
\* between the quotes, backslashes kept and nothing decoded, and the cursor
\* ends behind the closing quote; this holds for a value, for an array item
\* and for a property name, and the text of test_VerbatimStringTest is the
\* object with the key a\\ and the value b\\.
C16_VerbatimQuotedIsLiteral ==
    /\ \A q \in Quotes : \A b \in VerbatimBodies :
        /\ (status # "new" /\ source = VerbatimOf(q, b))
               => (status = "ok" /\ out = Literal(b) /\ i = Len(source))
        /\ (status # "new" /\ source = <<"[">> \o VerbatimOf(q, b) \o <<"]">>)
               => (status = "ok" /\ out = <<"[">> \o Literal(b) \o <<"]">>)
        /\ (status # "new" /\ source = VerbatimOf(q, b) \o <<":", "1">>)
               => (status = "ok" /\ out = <<"{">> \o Literal(b) \o <<":", "1", "}">>)
        /\ (status # "new" /\ source = <<"a", ":">> \o VerbatimOf(q, b))
               => (status = "ok"
                   /\ out = <<"{", "\"", "a", "\"", ":">> \o Literal(b) \o <<"}">>)
    /\ (status # "new" /\ source = test_VerbatimStringTest)
           => (status = "ok"
               /\ out = <<"{">> \o Literal(<<"a", "\\", "\\">>) \o <<":">>
                        \o Literal(<<"b", "\\", "\\">>) \o <<"}">>)

\* to_json ended on @"a".
C16_VerbatimQuotedRead ==
    status # "new" /\ source = <<"@", "\"", "a", "\"">>

-----------------------------------------------------------------------------
(* JSONHReader.to_json on \u escapes                                       *)

MaxEscapePieces == 3

test_EscapeSequenceTest ==
    <<"\n", "\"", "\\", "U", "0", "0", "0", "1", "F", "4", "7", "D", " ", "a", "n", "d", " ", "\\", "u", "D", "8", "3", "D", "\\", "u", "D", "C", "7", "D", "\"", "\n">>

test_QuotelessEscapeSequenceTest ==
    <<"\n", "\\", "U", "0", "0", "0", "1", "F", "4", "7", "D", " ", "a", "n", "d", " ", "\\", "u", "D", "8", "3", "D", "\\", "u", "D", "C", "7", "D", "\n">>

\* \uHHHH
UEscape(h) == <<"\\", "u">> \o h

HighSurrogates == {55296 + k : k \in 0..1023}
LowSurrogates == {56320 + k : k \in 0..1023}

\* Two high surrogates, a low surrogate, a code point that is neither, and
\* a letter.
EscapePieces ==
    {UEscape(<<"D", "8", "3", "D">>), UEscape(<<"D", "B", "F", "F">>),
     UEscape(<<"D", "C", "7", "D">>), UEscape(<<"0", "0", "4", "1">>), <<"a">>}

\* An escape cut short.
CutEscape == <<"\\", "u", "D", "C">>

\* What stands around the pieces: quotes of either kind, or nothing (a
\* quoteless string).
EscapeFrames ==
    {<< <<"\"">>, <<"\"">> >>, << <<"'">>, <<"'">> >>, << <<>>, <<>> >>}

EscapeTexts ==
    {test_EscapeSequenceTest, test_QuotelessEscapeSequenceTest}
    \cup {f[1] \o Flatten(ps) \o f[2] :
            f \in EscapeFrames,
            ps \in SeqsUpTo(EscapePieces \cup {CutEscape}, MaxEscapePieces)}

InitEscapes == InitOn(EscapeTexts)

SpecEscapes == InitEscapes /\ [][Next]_vars

IsEscapePiece(p) == Len(p) = 6
CodePoint(p) == IntOf(SubSeq(p, 3, 6), 16)

\* The text a sequence of pieces stands for when every high surrogate must
\* be followed at once by a low surrogate: [ok, s], ok = FALSE when a high
\* surrogate is followed by anything else or by nothing.  A low surrogate
\* with no high surrogate in front of it is taken as it stands.
RECURSIVE PairUp(_)
PairUp(ps) ==
    IF ps = <<>> THEN [ok |-> TRUE, s |-> <<>>]
    ELSE IF ~IsEscapePiece(ps[1])
         THEN Let(PairUp(Tail(ps)), LAMBDA r : [ok |-> r.ok, s |-> ps[1] \o r.s])
    ELSE IF CodePoint(ps[1]) \notin HighSurrogates
         THEN Let(PairUp(Tail(ps)), LAMBDA r :
                  [ok |-> r.ok, s |-> <<Chr(CodePoint(ps[1]))>> \o r.s])
    ELSE IF Len(ps) >= 2 /\ IsEscapePiece(ps[2]) /\ CodePoint(ps[2]) \in LowSurrogates
         THEN Let(PairUp(Tail(Tail(ps))), LAMBDA r :
                  [ok |-> r.ok,
                   s |-> <<Chr(65536 + (CodePoint(ps[1]) - 55296) * 1024
                                     + (CodePoint(ps[2]) - 56320))>> \o r.s])
    ELSE [ok |-> FALSE, s |-> <<>>]

\* C17: a high surrogate \uD800-\uDBFF followed at once by a low surrogate
\* \uDC00-\uDFFF decodes to the one code point
\* 0x10000 + ((hi - 0xD800) << 10) + (lo - 0xDC00); a high surrogate
\* followed by nothing, by other text or by an escape that is not a low
\* surrogate makes the read fail, and no lone high surrogate is output.
C17_UnpairedHighSurrogateFails ==
    \A f \in EscapeFrames : \A ps \in SeqsUpTo(EscapePieces, MaxEscapePieces) :
        (status # "new" /\ ps # <<>> /\ source = f[1] \o Flatten(ps) \o f[2])
            => Let(PairUp(ps), LAMBDA e :
                   IF e.ok THEN status = "ok" /\ out = json_dumps(e.s)
                   ELSE status = "raise")

\* to_json returned the lone high surrogate of "\uD83D".
C17_LoneHighSurrogateRead ==
    /\ status = "ok"
    /\ source = <<"\"">> \o UEscape(<<"D", "8", "3", "D">>) \o <<"\"">>
    /\ out = <<"\"", Chr(55357), "\"">>

-----------------------------------------------------------------------------
(* JSONHReader.to_json on multi-quoted strings                             *)

MaxMultiquoteBody == 5

test_MultiQuotedStringsNoLastNewlineWhitespaceTest ==
    <<"\n", "\"", "\"", "\"", "\n", " ", " ", "h", "e", "l", "l", "o", " ", "w", "o", "r", "l", "d", " ", " ", "\"", "\"", "\"", "\n">>

test_MultiQuotedStringsNoFirstWhitespaceNewlineTest ==
    <<"\n", "\"", "\"", "\"", " ", " ", "h", "e", "l", "l", "o", " ", "w", "o", "r", "l", "d", "\n", " ", " ", "\"", "\"", "\"", "\n">>

MultiquoteBodies == SeqsUpTo({"a", " ", "\n"}, MaxMultiquoteBody)

\* Three quotes, the content, three quotes.
MultiquoteOf(q, c) == <<q, q, q>> \o c \o <<q, q, q>>

MultiquoteTexts ==
    {test_MultiQuotedStringsNoLastNewlineWhitespaceTest,
     test_MultiQuotedStringsNoFirstWhitespaceNewlineTest}
    \cup {MultiquoteOf(q, c) : q \in Quotes, c \in MultiquoteBodies}

InitMultiquote == InitOn(MultiquoteTexts)

SpecMultiquote == InitMultiquote /\ [][Next]_vars

AllSpaces(c, from, to) == \A k \in from..to : c[k] = " "

\* The leading region: the position of the newline that ends it, 0 when the
\* content does not begin with optional spaces and a newline.
LeadingRegion(c) ==
    IF \E k \in 1..Len(c) : c[k] = "\n" /\ AllSpaces(c, 1, k - 1)
    THEN CHOOSE k \in 1..Len(c) : c[k] = "\n" /\ AllSpaces(c, 1, k - 1)
    ELSE 0

\* The trailing region: the position of the newline that begins it, 0 when
\* the content does not end with a newline and optional spaces.
TrailingRegion(c) ==
    IF \E k \in 1..Len(c) : c[k] = "\n" /\ AllSpaces(c, k + 1, Len(c))
    THEN CHOOSE k \in 1..Len(c) : c[k] = "\n" /\ AllSpaces(c, k + 1, Len(c))
    ELSE 0

\* The text m with the indentation w taken from the front of each line
\* that begins with it.
RECURSIVE Dedent(_, _, _)
Dedent(m, w, atLineStart) ==
    IF m = <<>> THEN <<>>
    ELSE IF atLineStart /\ w # <<>> /\ Len(m) >= Len(w) /\ SubSeq(m, 1, Len(w)) = w
         THEN Dedent(SubSeq(m, Len(w) + 1, Len(m)), w, FALSE)
    ELSE <<m[1]>> \o Dedent(Tail(m), w, m[1] = "\n")

\* What a multi-quoted string with the content c stands for: both regions
\* and the closing line's indentation removed when both regions are there,
\* the content as written otherwise.
MultiquoteValue(c) ==
    IF LeadingRegion(c) # 0 /\ TrailingRegion(c) # 0
    THEN Dedent(SubSeq(c, LeadingRegion(c) + 1, TrailingRegion(c) - 1),
                SubSeq(c, TrailingRegion(c) + 1, Len(c)), TRUE)
    ELSE c

\* C18: the leading region (optional spaces, then a newline) and the
\* trailing region (a newline, then optional spaces) of a multi-quoted
\* string are stripped only when both are present; with only one of them
\* the content is returned exactly as written, newline and spaces included,
\* as in the two tests.
C18_MultiquoteStripsOnlyWithBothNewlines ==
    /\ \A q \in Quotes : \A c \in MultiquoteBodies :
        (status # "new" /\ c # <<>> /\ source = MultiquoteOf(q, c))
            => (status = "ok" /\ out = json_dumps(MultiquoteValue(c)))
    /\ (status # "new" /\ source = test_MultiQuotedStringsNoLastNewlineWhitespaceTest)
           => (status = "ok"
               /\ out = json_dumps(<<"\n", " ", " ", "h", "e", "l", "l", "o", " ", "w", "o", "r", "l", "d", " ", " ">>))
    /\ (status # "new" /\ source = test_MultiQuotedStringsNoFirstWhitespaceNewlineTest)
           => (status = "ok"
               /\ out = json_dumps(<<" ", " ", "h", "e", "l", "l", "o", " ", "w", "o", "r", "l", "d", "\n", " ", " ">>))

\* to_json returned a content that has only its leading region, as written.
C18_OnlyLeadingNewlineKept ==
    /\ status = "ok"
    /\ source = MultiquoteOf("\"", <<" ", "\n", " ", "a", " ">>)
    /\ out = <<"\"", " ", "\\", "n", " ", "a", " ", "\"">>

-----------------------------------------------------------------------------
(* Termination of JSONHReader.to_json                                      *)

MaxShortText == 3

\* Every text of up to MaxShortText characters over a letter, a digit, a
\* blank and the structural characters; the empty text, a: and [1, are
\* among them.
ShortTexts == SeqsUpTo({"a", "1", " ", ":", ",", "[", "]"}, MaxShortText)

InitShort == InitOn(ShortTexts)

SpecShort == InitShort /\ [][Next]_vars

\* C19: on every finite text the parse terminates, returning a value or
\* raising an error after finitely many steps; in particular on the empty
\* text, on a: and on [1, .  The outcome "hang" stands for a call that
\* never returns.
C19_ParseTerminates ==
    status \in {"new", "ok", "raise"}

\* to_json runs for ever on the text a: .
C19_HangsAfterColon ==
    status = "hang" /\ source = <<"a", ":">>

-----------------------------------------------------------------------------
(* The cursor of JSONHReader                                               *)

\* C20: in every state of the reader, the state an error leaves behind
\* included, 0 <= cursor <= len(input): no read moves the cursor past the
\* end of the input.
C20_CursorWithinInput ==
    0 <= i /\ i <= Len(source)

\* to_json raised on {a:, with the cursor one past the end of the text.
C20_CursorPastEnd ==
    /\ status = "raise"
    /\ source = <<"{", "a", ":", ",">>
    /\ i = Len(source) + 1

-----------------------------------------------------------------------------
(* JSONHReader.to_json, one statement at a time                            *)

MaxStepText == 4

\* Every text of up to MaxStepText characters over a blank, a letter, the
\* colon, the bracket and the characters of a /= opener.
StepTexts == SeqsUpTo({" ", "a", ":", "[", "/", "="}, MaxStepText)

InitSteps == InitOn(StepTexts)

\* Lines 108-117 of _skip: position p holds a /= run that can start a block
\* comment and is not followed by *, so that the probe ends in
\* self.i = start.
FailedProbeAt(src, p) ==
    /\ _peek(src, p, 0) = "/" /\ _peek(src, p, 1) = "="
    /\ _can_start_block_comment(src, p)
    /\ _peek(src, EqRunEnd(src, p + 1), 0) # "*"

\* Lines 436-442 of _read_root_json: where the lookahead leaves the cursor
\* and the comments before line 443 restores the cursor.
LookaheadEnd(src, save, cs) ==
    Let(_read_key_json(src, save, cs), LAMBDA key :
    IF key.kind # "ok" THEN [i |-> key.i, comments |-> key.comments]
    ELSE Let(_skip(src, key.i, key.comments), LAMBDA sk :
             [i |-> sk.i, comments |-> sk.comments]))

\* to_json, line 22: self._skip(), up to the point where it returns or
\* where its last probe of a /= run has moved the cursor behind the run.
Skip ==
    /\ status = "new"
    /\ LET sk == _skip(source, i, comments) IN
        /\ comments' = sk.comments
        /\ IF sk.kind # "ok"
           THEN /\ status' = sk.kind
                /\ msg' = <<sk.exc, sk.msg>>
                /\ i' = sk.i
                /\ saved' = saved
           ELSE IF FailedProbeAt(source, sk.i)
           THEN /\ status' = "probe"
                /\ i' = EqRunEnd(source, sk.i + 1)
                /\ saved' = sk.i
                /\ msg' = msg
           ELSE /\ status' = "skipped"
                /\ i' = sk.i
                /\ UNCHANGED <<saved, msg>>
    /\ UNCHANGED <<source, out, resultVars, builderVars>>

\* _skip, line 116: self.i = start
ProbeRestore ==
    /\ status = "probe"
    /\ i' = saved
    /\ status' = "skipped"
    /\ UNCHANGED <<source, comments, out, msg, saved, resultVars, builderVars>>

\* _read_root_json, lines 435-442: save = self.i and the lookahead.
Lookahead ==
    /\ status = "skipped"
    /\ ~InStr(_peek(source, i, 0), {"{", "["})
    /\ LET look == LookaheadEnd(source, i, comments) IN
        /\ saved' = i
        /\ i' = look.i
        /\ comments' = look.comments
    /\ status' = "looked"
    /\ UNCHANGED <<source, out, msg, resultVars, builderVars>>

\* A restore that goes back to the start of the text.
LookaheadRestoreToStart ==
    /\ status = "looked"
    /\ i' = 0
    /\ status' = "restored"
    /\ UNCHANGED <<source, comments, out, msg, saved, resultVars, builderVars>>

\* _read_root_json, line 443: self.i = save
LookaheadRestore ==
    /\ status = "looked"
    /\ i' = saved
    /\ status' = "restored"
    /\ UNCHANGED <<source, comments, out, msg, saved, resultVars, builderVars>>

\* _read_root_json, lines 434 and 444-446: the root is read as a value or
\* as a braceless object.
ReadRoot ==
    /\ \/ status = "skipped" /\ InStr(_peek(source, i, 0), {"{", "["})
       \/ status = "restored"
    /\ LET r == IF status = "restored" /\ RootLookahead(source, i, <<>>).is_obj
                THEN _read_braceless_object(source, i, comments)
                ELSE _read_value(source, i, comments)
       IN
        /\ i' = r.i
        /\ comments' = r.comments
        /\ out' = r.out
        /\ status' = IF r.kind = "ok" THEN "read" ELSE r.kind
        /\ msg' = IF r.kind = "raise" THEN <<r.exc, r.msg>> ELSE msg
    /\ UNCHANGED <<source, saved, resultVars, builderVars>>

\* to_json, lines 24-27: the last _skip and the test for trailing characters.
Finish ==
    /\ status = "read"
    /\ LET sk == _skip(source, i, comments) IN
        /\ i' = sk.i
        /\ comments' = sk.comments
        /\ IF sk.kind # "ok"
           THEN status' = sk.kind /\ msg' = <<sk.exc, sk.msg>> /\ out' = <<>>
           ELSE IF ~_eof(source, sk.i)
           THEN /\ status' = "raise"
                /\ msg' = <<"JSONHSyntaxError", "Trailing characters">>
                /\ out' = <<>>
           ELSE status' = "ok" /\ UNCHANGED <<msg, out>>
    /\ UNCHANGED <<source, saved, resultVars, builderVars>>

NextSteps ==
    Skip \/ ProbeRestore \/ Lookahead \/ LookaheadRestore \/ ReadRoot \/ Finish

SpecSteps == InitSteps /\ [][NextSteps]_vars

\* Reading a token (whitespace and comments, a value, a property name)
\* from position p leaves the cursor at or behind p, also when it fails.
TokenReadsForward(src, p) ==
    /\ _skip(src, p, <<>>).i >= p
    /\ _read_value(src, p, <<>>).i >= p
    /\ _read_key_json(src, p, <<>>).i >= p

\* C21: from the completion of one token to the completion of the next the
\* cursor never decreases; the only backward moves are the restore after
\* the braceless-root lookahead and the restore after the probe of a /=
\* opener that is no comment, and each sets the cursor exactly to the
\* position it had when that lookahead began.
C21_CursorGoesBackOnlyToRestore ==
    [][/\ (status \in {"probe", "looked"}) => (i' = saved /\ saved <= i)
       /\ (status \notin {"probe", "looked"}) => i' >= i
       /\ (status' = "looked") => saved' = i
       /\ (status' = "probe") => (saved' >= i /\ FailedProbeAt(source, saved'))
       /\ \A p \in 0..Len(source) : TokenReadsForward(source, p)]_vars

\* The lookahead of " a:a" has been undone: the cursor is back on the a
\* behind the blank.
C21_LookaheadRestored ==
    /\ status = "restored"
    /\ source = <<" ", "a", ":", "a">>
    /\ i = 1 /\ saved = 1

-----------------------------------------------------------------------------
(* JsonhReader.parse_element on balanced token streams                     *)

StartTypes == {"START_OBJECT", "START_ARRAY"}
EndTypes == {"END_OBJECT", "END_ARRAY"}

\* The number of Start tokens minus the number of End tokens among the
\* first k results of toks.
RECURSIVE DepthAfter(_, _)
DepthAfter(toks, k) ==
    IF k = 0 THEN 0
    ELSE DepthAfter(toks, k - 1)
         + (IF toks[k].value_or_none.json_type \in StartTypes THEN 1
            ELSE IF toks[k].value_or_none.json_type \in EndTypes THEN -1
            ELSE 0)

\* A stream of tokens, none of them a failure, that opens a container with
\* its first token and closes that container with its last.
IsBalancedStream(toks) ==
    /\ Len(toks) >= 2
    /\ \A k \in 1..Len(toks) : toks[k].value_or_none # None
    /\ \A k \in 1..(Len(toks) - 1) : DepthAfter(toks, k) >= 1
    /\ DepthAfter(toks, Len(toks)) = 0

\* C22: an EndObject or EndArray token pops the stack of containers when
\* more than one is open and returns the one open container as the root;
\* so on a balanced stream the stack depth after a token is the number of
\* Start tokens minus the number of End tokens seen, and the builder ends
\* with a success that carries the root container, all tokens taken
\* (with parse_single_element off, so that nothing is read behind the root).
C22_BalancedStreamBuildsRoot ==
    (built # None /\ options = OptionsWith(FALSE) /\ IsBalancedStream(tokens)) =>
        /\ token_count < Len(tokens)
               => Len(current_elements) = DepthAfter(tokens, token_count)
        /\ token_count = Len(tokens)
        /\ built.kind = "return"
        /\ built.ret # None
        /\ built.ret.error_or_none = None
        /\ built.ret.value_or_none # None
        /\ built.ret.value_or_none.type \in {"list", "dict"}

\* parse_element ended on the tokens of [1, 2].
C22_ArrayStreamBuilt ==
    /\ built # None
    /\ options = OptionsWith(FALSE)
    /\ tokens = ArrayOfTwoTokens
    /\ token_count = 1
    /\ current_elements = <<>>

-----------------------------------------------------------------------------
(* JSONHReader.to_json on mantissas with a fractional part                 *)

MaxFractionDigits == 2

FractionDigits == {"0", "1", "5", "8"}

\* The base prefixes of the family with their bases; none is base 10.
FractionBases == {<< <<>>, 10 >>, << <<"0", "x">>, 16 >>, << <<"0", "b">>, 2 >>}

\* w.f : a whole part, a dot and a fractional part.
FractionOf(pre, w, f) == pre \o w \o <<".">> \o f

FractionTexts ==
    {FractionOf(pb[1], w, f) :
        pb \in FractionBases,
        w \in SeqsUpTo(FractionDigits, MaxFractionDigits),
        f \in SeqsUpTo(FractionDigits, MaxFractionDigits)}

InitFractions == InitOn(FractionTexts)

SpecFractions == InitFractions /\ [][Next]_vars

\* The digits of t in base b as a natural number, 0 for no digit.
RECURSIVE ValueInBase(_, _)
ValueInBase(t, b) ==
    IF t = <<>> THEN 0
    ELSE ValueInBase(SubSeq(t, 1, Len(t) - 1), b) * b + DigitValue(t[Len(t)])

DigitsOfBase(t, b) == \A k \in 1..Len(t) : Lower(t[k]) \in BaseDigits(b)

\* The JSON text o is a number with the value num / den.
DenotesRatio(o, num, den) ==
    /\ IsNumberOut(o)
    /\ \A k \in 1..Len(o) : o[k] \in DecimalDigits \cup {"-", "+", ".", "E", "e"}
    /\ Let(JsonNumberValue(o), LAMBDA v :
           /\ v.neg => v.coef = 0
           /\ IF v.exp >= 0 THEN v.coef * Pow(10, v.exp) * den = num
              ELSE v.coef * den = num * Pow(10, -v.exp))

\* C23: the mantissa w.f in base b is value_b(w) plus the sum over the
\* digits of f of digit_i * b^(-i), that is
\* (value_b(w) * b^len(f) + value_b(f)) / b^len(f): leading zeros of f
\* count (1.05 is 1.05, not 1.5) and f is weighted by the base (0x0.8 and
\* 0b0.1 are 0.5).
C23_FractionWeightedByBase ==
    \A pb \in FractionBases :
    \A w \in SeqsUpTo(FractionDigits, MaxFractionDigits) :
    \A f \in SeqsUpTo(FractionDigits, MaxFractionDigits) :
        (/\ status # "new"
         /\ source = FractionOf(pb[1], w, f)
         /\ w \o f # <<>>
         /\ DigitsOfBase(w \o f, pb[2]))
            => /\ status = "ok"
               /\ DenotesRatio(out,
                      ValueInBase(w, pb[2]) * Pow(pb[2], Len(f)) + ValueInBase(f, pb[2]),
                      Pow(pb[2], Len(f)))

\* to_json returned 1.5 for 1.05.
C23_LeadingZeroDropped ==
    /\ status = "ok"
    /\ source = <<"1", ".", "0", "5">>
    /\ out = <<"1", ".", "5">>

-----------------------------------------------------------------------------
(* Lexemes without mantissa digits or without exponent digits              *)

\* The lexeme behind its sign and base prefix.
LexemeBody(s) ==
    Let(Unsigned(s), LAMBDA u :
        IF HasBasePrefix(u) THEN SubSeq(u, 3, Len(u)) ELSE u)

OnlyOf(t, cs) == \A k \in 1..Len(t) : t[k] \in cs

\* The lexeme has no exponent and no digit in its mantissa, or it is
\* decimal and closes a mantissa without digit with an exponent.
MantissaWithoutDigit(s) ==
    Let(LexemeBody(s), LAMBDA b :
        \/ b # <<>> /\ OnlyOf(b, {".", "_"})
        \/ /\ ~HasBasePrefix(Unsigned(s))
           /\ FirstOf(b, {"e"}) # 0
           /\ OnlyOf(SubSeq(b, 1, FirstOf(b, {"e"}) - 1), {".", "_"}))

\* The lexeme has digits in its mantissa and an exponent marker (e in a
\* decimal lexeme, e and a sign in a hexadecimal one) with no digit behind.
ExponentWithoutDigit(s) ==
    Let(LexemeBody(s), LAMBDA b :
    Let(IF HasBasePrefix(Unsigned(s)) THEN MarkerAt(b) ELSE FirstOf(b, {"e"}),
        LAMBDA k :
        /\ ~HasBasePrefix(Unsigned(s)) \/ BaseOfPrefix(Unsigned(s)) = 16
        /\ k > 1
        /\ OnlyOf(SubSeq(b, 1, k - 1), {"1", "."})
        /\ \E j \in 1..(k - 1) : b[j] = "1"
        /\ OnlyOf(SubSeq(b, k + 1, Len(b)), {"+", ".", "_"})))

\* C24: a lexeme whose mantissa holds no digit is rejected, with or without
\* an exponent or a base prefix (0x. 0b. .e1 _.), and so is a lexeme whose
\* exponent is there but holds no digit; a mantissa with digits on one
\* side of the dot only (1. and .1) is accepted.  A rejected lexeme is read
\* as a string.
C24_DigitlessMantissaOrExponentRejected ==
    /\ (status # "new" /\ source # <<>>
            /\ (MantissaWithoutDigit(source) \/ ExponentWithoutDigit(source)))
           => (status = "ok" /\ out = Quoted(source))
    /\ (status # "new" /\ source = <<"1", ".">>) => (status = "ok" /\ Denotes(out, 1))
    /\ (status # "new" /\ source = <<".", "1">>)
           => (status = "ok" /\ DenotesRatio(out, 1, 10))

\* to_json returned 0 for 0x. , a lexeme without any digit.
C24_DigitlessHexRead ==
    /\ status = "ok"
    /\ source = <<"0", "x", ".">>
    /\ out = <<"0">>

-----------------------------------------------------------------------------
(* JSONHReader.to_json on a reserved character where a value is due         *)

\* The reserved characters that start no value.
NoValueChars == {",", ":", "]", "}", "/", "#"}

\* What stands in front of a value position and what closes the text
\* behind it: an array item (first, or after a comma), a property value in
\* braces, a property value of a braceless root, and the root itself.
ValueFrames ==
    {<< <<"[">>, <<"]">> >>, << <<"[", "1", ",">>, <<"]">> >>,
     << <<"{", "a", ":">>, <<"}">> >>, << <<"a", ":">>, <<>> >>,
     << <<>>, <<>> >>}

\* The text of frame f with the character x at the value position, the
\* blanks b in front of it and the text m behind it.
ReservedAt(f, b, x, m) == f[1] \o b \o <<x>> \o m \o f[2]

BlanksBefore == {<<>>, <<" ">>}
TextsBehind == {<<>>, <<"2">>, <<",", "2">>}

\* A property whose value position holds the closing brace.
PropertyWithoutValue == <<"{", "a", ":", "}">>

ReservedTexts ==
    {PropertyWithoutValue} \cup
    {ReservedAt(f, b, x, m) :
        f \in ValueFrames, b \in BlanksBefore, x \in NoValueChars, m \in TextsBehind}

InitReserved == InitOn(ReservedTexts)

SpecReserved == InitReserved /\ [][Next]_vars

\* x at the value position of frame f is a reserved character that starts
\* no value: not the ] that closes an array, and not a # behind a blank or
\* at the start of the text, which starts a comment.
StartsNoValue(f, b, x) ==
    /\ ~(x = "]" /\ f[1] # <<>> /\ f[1][1] = "[")
    /\ ~(x = "#" /\ (b # <<>> \/ f[1] = <<>>))

\* C25: when the first character that is no whitespace at a value position
\* is a reserved character that starts no value, reading the value is an
\* error; no empty string is produced without consuming input, so [,] and
\* [1,,2] and {a:} are errors.
C25_ReservedAtValuePositionIsError ==
    /\ \A f \in ValueFrames : \A b \in BlanksBefore :
       \A x \in NoValueChars : \A m \in TextsBehind :
           (/\ status # "new"
            /\ source = ReservedAt(f, b, x, m)
            /\ StartsNoValue(f, b, x))
               => status = "raise"
    /\ (status # "new" /\ source = PropertyWithoutValue) => status = "raise"

\* to_json returned an object with an empty string for {a:}.
C25_EmptyValueRead ==
    /\ status = "ok"
    /\ source = PropertyWithoutValue
    /\ out = <<"{", "\"", "a", "\"", ":", "\"", "\"", "}">>

-----------------------------------------------------------------------------
(* The comments JSONHReader.to_json records around the root lookahead      *)

\* A comment with the body c in each of the four forms.
LookaheadComments ==
    {<<"/", "*", "c", "*", "/">>, <<"#", "c", "\n">>,
     <<"/", "/", "c", "\n">>, <<"/", "=", "*", "c", "*", "=", "/">>}

\* What the root begins with: a quoteless name, a quoted name, a number.
RootHeads == {<<"a">>, <<"\"", "a", "\"">>, <<"1">>}

\* In front of the root: nothing, or the comment b.
RootLeads == {<<>>, <<"/", "*", "b", "*", "/", " ">>}

\* Behind the comment: nothing (the root is a value), a colon and a value
\* (the root is a braceless object), the same with the comment d in front
\* of the value.
RootTails ==
    {<<>>, <<":", "1">>, <<" ", ":", " ", "1">>, <<":", " ", "/", "*", "d", "*", "/", " ", "1">>}

\* The text with the comment c between the head of the root and what
\* follows it.
CommentAfterHead(l, h, c, t) == l \o h \o <<" ">> \o c \o t

LookaheadCommentTexts ==
    {CommentAfterHead(l, h, c, t) :
        l \in RootLeads, h \in RootHeads, c \in LookaheadComments, t \in RootTails}

InitLookaheadComments == InitOn(LookaheadCommentTexts)

SpecLookaheadComments == InitLookaheadComments /\ [][Next]_vars

\* The body letter of a recorded comment, "?" when it holds none.
CommentLetter(c) ==
    IF \E k \in 1..Len(c) : c[k] \in {"b", "c", "d"}
    THEN c[CHOOSE k \in 1..Len(c) : c[k] \in {"b", "c", "d"}]
    ELSE "?"

\* The body letters of the comments of a text of the family, in the order
\* of the text.
CommentLettersOf(l, t) ==
    (IF l = <<>> THEN <<>> ELSE <<"b">>) \o <<"c">>
    \o (IF \E k \in 1..Len(t) : t[k] = "d" THEN <<"d">> ELSE <<>>)

\* C26: after a successful parse the comments list holds exactly one entry
\* for each comment of the text, in the order of the text; the root
\* lookahead leaves the list as it was, so a comment between the first
\* property name and its colon is not recorded twice.
C26_EachCommentRecordedOnce ==
    \A l \in RootLeads : \A h \in RootHeads :
    \A c \in LookaheadComments : \A t \in RootTails :
        (status = "ok" /\ source = CommentAfterHead(l, h, c, t))
            => [k \in 1..Len(comments) |-> CommentLetter(comments[k])]
                   = CommentLettersOf(l, t)

\* to_json returned the object of a /*c*/:1 with the comment recorded twice.
C26_CommentRecordedTwice ==
    /\ status = "ok"
    /\ source = <<"a", " ", "/", "*", "c", "*", "/", ":", "1">>
    /\ comments = <<<<"/", "*", "c", "*", "/">>, <<"/", "*", "c", "*", "/">>>>

====
